---- MODULE Spec2Model ----
(***************************************************************************)
(* A model of interpret.py, the IPPcode23 interpreter: the Interpret       *)
(* facade with its FlowControl, Stack and TemporaryFrame objects, the      *)
(* Instruction decoder and the opcode handlers of class Operations.        *)
(*                                                                         *)
(* Python objects are modelled by what the code can tell apart:            *)
(*   - a str is its sequence of code points;                               *)
(*   - a str, int, bool or None is one record shape (PyStr .. PyNone);     *)
(*   - a stored value is the 2-tuple (payload, type) the code builds, or   *)
(*     the object None where the code can return None instead of a tuple;  *)
(*   - a frame is a dict object on a heap, addressed by its identity, so   *)
(*     that two references to one dict share their contents as in Python.  *)
(* error(code) and exit(code) end the run with that code; an exception     *)
(* that no handler catches ends it with Python's exit code 1.              *)
(***************************************************************************)
EXTENDS Integers, Sequences, FiniteSets, TLC

(***************************************************************************)
(* Bounds of the model.                                                    *)
(***************************************************************************)
\* number of instructions of the programs of Spec (len(flow._sorted_ins))
ProgLen == 5
\* number of instructions of the programs of SpecOps
OpsLen == 3
\* the instructions of a program of SpecEq
EqLen == 4
\* the instructions of a program of SpecFlow, and the calls it may nest
FlowLen == 5
MaxCalls == 3
\* the instructions of a program of SpecDef
DefLen == 6
\* the instructions of a program of SpecArity
ArityLen == 4
\* the instructions of a program of SpecExit
ExitLen == 4
\* the instructions of a document of SpecJump
JumpLen == 4
\* the instructions of a program of SpecJeq
JeqLen == 3
\* the instruction children of a document of SpecLoad
LoadLen == 3
\* the instructions of a program of SpecMath
MathLen == 4
\* the instructions of a program of SpecStr
StrLen == 4
\* the instructions of a program of SpecPush
PushLen == 4
\* the characters of the longest string literal of SpecEsc
EscLen == 7
\* the executed instructions the run keeps count of, and the instructions
\* of a program of SpecBreak
MaxPerformed == 8
BreakLen == 4
StackLen == 4

(***************************************************************************)
(* Characters and strings.                                                 *)
(***************************************************************************)
Ord(c) ==
    CASE c = "0" -> 48 [] c = "1" -> 49 [] c = "2" -> 50 [] c = "3" -> 51
      [] c = "4" -> 52 [] c = "5" -> 53 [] c = "6" -> 54 [] c = "7" -> 55
      [] c = "8" -> 56 [] c = "9" -> 57
      [] c = "-" -> 45 [] c = "+" -> 43 [] c = "@" -> 64 [] c = "\\" -> 92
      [] c = "F" -> 70 [] c = "G" -> 71 [] c = "L" -> 76 [] c = "M" -> 77
      [] c = "N" -> 78 [] c = "T" -> 84
      [] c = "a" -> 97 [] c = "b" -> 98 [] c = "c" -> 99 [] c = "d" -> 100
      [] c = "e" -> 101 [] c = "f" -> 102 [] c = "g" -> 103 [] c = "i" -> 105
      [] c = "l" -> 108 [] c = "n" -> 110 [] c = "o" -> 111 [] c = "p" -> 112
      [] c = "r" -> 114 [] c = "s" -> 115 [] c = "t" -> 116 [] c = "u" -> 117
      [] c = "v" -> 118 [] c = "x" -> 120 [] c = "y" -> 121

\* the str whose characters are the one-character strings of cs
T(cs) == [i \in 1..Len(cs) |-> Ord(cs[i])]

IsDigitChar(c) == c >= 48 /\ c <= 57
IsUpperChar(c) == c >= 65 /\ c <= 90
IsLowerChar(c) == c >= 97 /\ c <= 122

\* str.isdigit() on a non-empty-or-empty str of the model's alphabet
IsDigit(s) == Len(s) > 0 /\ \A i \in 1..Len(s) : IsDigitChar(s[i])

\* str.lower()
Lower(s) == [i \in 1..Len(s) |-> IF IsUpperChar(s[i]) THEN s[i] + 32 ELSE s[i]]

\* str.capitalize(): first character upper case, the rest lower case
Capitalize(s) ==
    [i \in 1..Len(s) |->
        IF i = 1 THEN (IF IsLowerChar(s[i]) THEN s[i] - 32 ELSE s[i])
        ELSE (IF IsUpperChar(s[i]) THEN s[i] + 32 ELSE s[i])]

RECURSIVE DigitsValue(_)
\* the number a str of decimal digits denotes
DigitsValue(s) ==
    IF Len(s) = 0 THEN 0
    ELSE 10 * DigitsValue(SubSeq(s, 1, Len(s) - 1)) + (s[Len(s)] - 48)

\* int(str): an optional sign and at least one decimal digit, else ValueError
IntParses(s) ==
    \/ IsDigit(s)
    \/ Len(s) > 1 /\ s[1] \in {43, 45} /\ IsDigit(Tail(s))

IntOfStr(s) ==
    IF IsDigit(s) THEN DigitsValue(s)
    ELSE IF s[1] = 45 THEN 0 - DigitsValue(Tail(s))
    ELSE DigitsValue(Tail(s))

RECURSIVE NatToStr(_)
NatToStr(n) ==
    IF n < 10 THEN <<48 + n>>
    ELSE NatToStr(n \div 10) \o <<48 + (n % 10)>>

\* str(int)
IntToStr(n) == IF n < 0 THEN <<45>> \o NatToStr(0 - n) ELSE NatToStr(n)

\* a local variable: the body with its parameter bound to a value
With(x, Body(_)) == Body(x)
With2(x, y, Body(_, _)) == Body(x, y)
With3(x, y, z, Body(_, _, _)) == Body(x, y, z)

\* str.find(c, start) for a one-character c: the 0-based position, or -1
Find(s, c, start) ==
    With({i \in 0..(Len(s) - 1) : i >= start /\ s[i + 1] = c}, LAMBDA hits :
    IF hits = {} THEN -1
    ELSE CHOOSE i \in hits : \A j \in hits : i <= j)

\* str.split(sep) for a one-character sep
RECURSIVE Split(_, _)
Split(s, sep) ==
    With(Find(s, sep, 0), LAMBDA x :
    IF x = -1 THEN <<s>>
    ELSE <<SubSeq(s, 1, x)>> \o Split(SubSeq(s, x + 2, Len(s)), sep))

(***************************************************************************)
(* Python objects.                                                         *)
(***************************************************************************)
PyStr(s)  == [py |-> "str",  s |-> s,    n |-> 0, b |-> FALSE]
PyInt(n)  == [py |-> "int",  s |-> <<>>, n |-> n, b |-> FALSE]
PyBool(b) == [py |-> "bool", s |-> <<>>, n |-> 0, b |-> b]
PyNone    == [py |-> "None", s |-> <<>>, n |-> 0, b |-> FALSE]
\* a reference to the dict object with identity id
PyDict(id) == [py |-> "dict", s |-> <<>>, n |-> id, b |-> FALSE]

\* Python's ==: bool is a subclass of int (True == 1), otherwise by type and content
PyEq(x, y) ==
    IF x.py \in {"int", "bool"} /\ y.py \in {"int", "bool"}
    THEN (IF x.py = "int" THEN x.n ELSE IF x.b THEN 1 ELSE 0)
         = (IF y.py = "int" THEN y.n ELSE IF y.b THEN 1 ELSE 0)
    ELSE x = y

\* str(x)
Str(x) ==
    CASE x.py = "str"  -> x.s
      [] x.py = "int"  -> IntToStr(x.n)
      [] x.py = "bool" -> IF x.b THEN T(<<"T", "r", "u", "e">>)
                                 ELSE T(<<"F", "a", "l", "s", "e">>)
      [] OTHER         -> T(<<"N", "o", "n", "e">>)

\* the 2-tuple (v0, v1), and the object None where a tuple is expected
Tuple(v0, v1) == [tup |-> TRUE, v0 |-> v0, v1 |-> v1]
NoneTuple == [tup |-> FALSE, v0 |-> PyNone, v1 |-> PyNone]
\* (None, None): the value of a variable after DEFVAR
Uninitialized == Tuple(PyNone, PyNone)

(***************************************************************************)
(* The texts the code compares against.                                    *)
(***************************************************************************)
GF == T(<<"G", "F">>)
TF == T(<<"T", "F">>)
LF == T(<<"L", "F">>)
t_var    == T(<<"v", "a", "r">>)
t_string == T(<<"s", "t", "r", "i", "n", "g">>)
t_type   == T(<<"t", "y", "p", "e">>)
t_label  == T(<<"l", "a", "b", "e", "l">>)
t_lable  == T(<<"l", "a", "b", "l", "e">>)
t_int    == T(<<"i", "n", "t">>)
t_bool   == T(<<"b", "o", "o", "l">>)
t_nil    == T(<<"n", "i", "l">>)
valid_types == <<t_var, t_string, t_type, t_label, t_int, t_bool, t_nil>>

\* the outcome of a check: no error, error(code), or an uncaught exception
Ok == [code |-> 0, exc |-> ""]
Err(code) == [code |-> code, exc |-> "SystemExit"]
Exc(name) == [code |-> 1, exc |-> name]

(***************************************************************************)
(* class Stack                                                             *)
(***************************************************************************)
\* Stack(): `none` is the object None in the shape of this stack's elements
Stack_init(none) == [stack |-> <<>>, last_elem |-> none]

Stack_append(st, item) == [stack |-> Append(st.stack, item), last_elem |-> item]

\* a pop that takes the element off the list and leaves _last_elem alone
Stack_pop_keeps_last(st, none) ==
    IF Len(st.stack) = 0 THEN [stack |-> <<>>, last_elem |-> none]
    ELSE [stack |-> SubSeq(st.stack, 1, Len(st.stack) - 1),
          last_elem |-> st.last_elem]

\* stack.pop() then _last_elem = stack[-1]; an IndexError from either one
\* (the stack was empty, or is empty now) sets _last_elem to None
Stack_pop(st, none) ==
    IF Len(st.stack) = 0 THEN [stack |-> <<>>, last_elem |-> none]
    ELSE LET rest == SubSeq(st.stack, 1, Len(st.stack) - 1)
         IN  [stack |-> rest,
              last_elem |-> IF Len(rest) = 0 THEN none ELSE rest[Len(rest)]]

Stack_get_top(st) == st.last_elem

(***************************************************************************)
(* class TemporaryFrame, over the heap of dict objects.  A dict is a       *)
(* function from names to stored values; heap maps the identity of every   *)
(* dict a reference can reach to its contents.                             *)
(***************************************************************************)
EmptyDict == [k \in {} |-> Uninitialized]

DictSet(d, name, value) ==
    [k \in (DOMAIN d) \cup {name} |-> IF k = name THEN value ELSE d[k]]

\* heap with dict id updated by d[name] = value
HeapSet(heap, id, name, value) ==
    [heap EXCEPT ![id] = DictSet(heap[id], name, value)]

\* __init__: _initialized = False, data = {} (the dict with identity 0)
TemporaryFrame_init == [initialized |-> FALSE, data |-> 0]

\* set(frame)
TemporaryFrame_set(tf, id) == [initialized |-> TRUE, data |-> id]

\* exists()
TemporaryFrame_exists(tf) == tf.initialized

\* remove(): only the flag changes, data keeps its reference
TemporaryFrame_remove(tf) == [tf EXCEPT !.initialized = FALSE]

\* exists_var(name)
TemporaryFrame_exists_var(tf, heap, name) == name \in DOMAIN heap[tf.data]

\* get_var(name): the value, or None
TemporaryFrame_get_var(tf, heap, name) ==
    IF TemporaryFrame_exists_var(tf, heap, name) THEN heap[tf.data][name]
    ELSE NoneTuple

(***************************************************************************)
(* class Instruction.  An <instruction> element is                         *)
(*   [opcode |-> its opcode attribute,                                     *)
(*    args   |-> its children in document order, each                      *)
(*               [tag |-> n for the tag "arg<n>", type |-> its type        *)
(*                attribute, text |-> its text]].                          *)
(***************************************************************************)
Backslash == 92

\* syntax_checks: every child is tagged by its position or by the descending
\* count, and carries a type of valid_types
syntax_checks(elem) ==
    LET n == Len(elem.args)
        bad(i) == \/ (elem.args[i].tag # n - (i - 1) /\ elem.args[i].tag # i)
                  \/ ~(\E k \in 1..Len(valid_types) : valid_types[k] = elem.args[i].type)
    IN  IF \E i \in 1..n : bad(i) THEN Err(32) ELSE Ok

\* chr(int(digit)) for the three characters after a backslash: the code point,
\* or -1 when int() or chr() raises ValueError
EscapeCode(digit) ==
    IF IntParses(digit) /\ IntOfStr(digit) >= 0 THEN IntOfStr(digit) ELSE 0 - 1

RECURSIVE stringify_from(_, _)
\* the while loop of stringify, entered with `start`
stringify_from(string, start) ==
    With(Find(string, Backslash, start), LAMBDA x :
    IF x = 0 - 1 THEN [res |-> Ok, s |-> string]
    ELSE IF x + 3 > Len(string) - 1 THEN [res |-> Exc("IndexError"), s |-> string]
    ELSE With2(SubSeq(string, x + 2, x + 4), EscapeCode(SubSeq(string, x + 2, x + 4)),
               LAMBDA digit, code :
         IF code = 0 - 1 THEN [res |-> Exc("ValueError"), s |-> string]
         ELSE stringify_from(
                  SubSeq(string, 1, x) \o <<code>>
                      \o SubSeq(string, x + 5, Len(string)),
                  IF IsDigit(digit) THEN start ELSE x)))

stringify(string) == stringify_from(string, 0)

Reverse(seq) == [i \in 1..Len(seq) |-> seq[Len(seq) + 1 - i]]

\* create_dependencies: arg_list holds (text, type) per argument, reversed when
\* the first child is tagged arg2 or arg3; dependencies holds the text of every
\* var and label argument.  The text of an argument without text is None,
\* which has no find() for stringify to call.
create_dependencies(elem) ==
    With([i \in 1..Len(elem.args) |->
             IF elem.args[i].type = t_string
             THEN (IF elem.args[i].text = <<>>
                   THEN [res |-> Exc("AttributeError"), s |-> <<>>]
                   ELSE stringify(elem.args[i].text))
             ELSE [res |-> Ok, s |-> elem.args[i].text]], LAMBDA text :
    LET n == Len(elem.args)
        decoded(i) == text[i]
        failing == {i \in 1..n : decoded(i).res # Ok}
        rev == n > 0 /\ elem.args[1].tag \in {2, 3}
        arg_list == [i \in 1..n |->
                        Tuple(PyStr(decoded(i).s), PyStr(elem.args[i].type))]
        isdep(i) == elem.args[i].type \in {t_var, t_label}
        RECURSIVE deps(_)
        deps(i) == IF i > n THEN <<>>
                   ELSE (IF isdep(i) THEN <<elem.args[i].text>> ELSE <<>>)
                        \o deps(i + 1)
    IN  IF failing # {}
        THEN [res |-> decoded(CHOOSE i \in failing : \A j \in failing : i <= j).res,
              arg_list |-> <<>>, dependencies |-> <<>>]
        ELSE [res |-> Ok,
              arg_list |-> IF rev THEN Reverse(arg_list) ELSE arg_list,
              dependencies |-> deps(1)])

\* the attribute `instruction` of the engine before the first fetch
NoInstruction == [opcode |-> "", arg_list |-> <<>>, dependencies |-> <<>>]

\* Instruction(elem): the outcome of the constructor and the object it builds
Instruction(elem) ==
    With2(syntax_checks(elem), create_dependencies(elem), LAMBDA sc, cd :
        IF sc # Ok THEN [res |-> sc, ins |-> NoInstruction]
        ELSE IF cd.res # Ok THEN [res |-> cd.res, ins |-> NoInstruction]
        ELSE [res |-> Ok,
              ins |-> [opcode |-> elem.opcode, arg_list |-> cd.arg_list,
                       dependencies |-> cd.dependencies]])

(***************************************************************************)
(* The engine.  Its state is the record s of the objects Interpret.__init__ *)
(* builds and Operations shares:                                           *)
(*   sorted_ins, index          FlowControl._sorted_ins and ._index         *)
(*   label_list                 the label map of get_all_labels            *)
(*   ins                        the element interpret() fetched last       *)
(*   data_stack, call_stack, local_frame_stack   the three Stack objects   *)
(*   global_frame               the global dict                            *)
(*   temporary_frame, heap      the TemporaryFrame and the dict objects    *)
(*   stdout, stderr             what WRITE, DPRINT and BREAK printed       *)
(*   outcome                    Ok while the run goes on, else how it ended *)
(***************************************************************************)
Raise(s, o) == [s EXCEPT !.outcome = o]

FirstFail(checks) ==
    With({i \in 1..Len(checks) : checks[i] # Ok}, LAMBDA failing :
    IF failing = {} THEN Ok
    ELSE checks[CHOOSE i \in failing : \A j \in failing : i <= j])

\* the identity of a newly created dict: one no live dict has
FreshId(heap) == CHOOSE id \in 0..Cardinality(DOMAIN heap) :
                     /\ id \notin DOMAIN heap
                     /\ \A j \in 0..Cardinality(DOMAIN heap) :
                            j \notin DOMAIN heap => id <= j

\* reference counting: a dict no reference reaches is freed
Collect(s) ==
    LET live == {s.temporary_frame.data}
                \cup {s.local_frame_stack.stack[i].n :
                          i \in 1..Len(s.local_frame_stack.stack)}
    IN  [s EXCEPT !.heap = [id \in live |-> s.heap[id]]]

\* the dict on top of the local frame stack (get_top() is not None)
TopFrame(s) == s.heap[Stack_get_top(s.local_frame_stack).n]

frame_exists(s, frame) ==
    IF frame = GF THEN Ok
    ELSE IF frame = TF
         THEN (IF ~TemporaryFrame_exists(s.temporary_frame) THEN Err(55) ELSE Ok)
    ELSE IF frame = LF
         THEN (IF Stack_get_top(s.local_frame_stack) = PyNone THEN Err(55) ELSE Ok)
    ELSE Err(31)

\* the body of dependency_check's loop for one dependency
dependency_check_one(s, dp) ==
    With(Split(dp, Ord("@")), LAMBDA parts :
    LET frame == parts[1]
        name  == parts[2]
    IN  IF Len(parts) # 2 THEN Exc("ValueError")
        ELSE IF frame = GF
             THEN (IF name \notin DOMAIN s.global_frame THEN Err(54) ELSE Ok)
        ELSE IF frame = TF
             THEN (IF frame_exists(s, TF) # Ok THEN frame_exists(s, TF)
                   ELSE IF ~TemporaryFrame_exists_var(s.temporary_frame, s.heap, name)
                        THEN Err(54) ELSE Ok)
        ELSE IF frame = LF
             THEN (IF frame_exists(s, LF) # Ok THEN frame_exists(s, LF)
                   ELSE IF name \notin DOMAIN TopFrame(s) THEN Err(54) ELSE Ok)
        ELSE Err(31))

dependency_check(s, ins) ==
    FirstFail([i \in 1..Len(ins.dependencies) |->
                  dependency_check_one(s, ins.dependencies[i])])

\* check_arg_types: the first letter of each argument's type against types[i]
check_arg_types(ins, types) ==
    FirstFail([i \in 1..Len(ins.arg_list) |->
                  IF i > Len(types) THEN Exc("IndexError")
                  ELSE IF ins.arg_list[i].v1.s[1] # types[i] THEN Err(53) ELSE Ok])

\* in_frame looking at the global frame only
in_frame_global_only(s, name, frame) == frame = GF /\ name \in DOMAIN s.global_frame

in_frame(s, name, frame) ==
    IF frame = GF THEN name \in DOMAIN s.global_frame
    ELSE IF frame = TF THEN TemporaryFrame_exists_var(s.temporary_frame, s.heap, name)
    ELSE name \in DOMAIN TopFrame(s)

\* get_frame_value: [res |-> Ok and v |-> what it returns] or the exception raised
get_frame_value(s, text) ==
    With(Split(text, Ord("@")), LAMBDA parts :
    LET frame == parts[1]
        name  == parts[2]
        raise(e) == [res |-> Exc(e), v |-> NoneTuple]
    IN  IF Len(parts) # 2 THEN raise("ValueError")
        ELSE IF frame = GF
             THEN (IF name \in DOMAIN s.global_frame
                   THEN [res |-> Ok, v |-> s.global_frame[name]]
                   ELSE raise("KeyError"))
        ELSE IF frame = LF
             THEN (IF Stack_get_top(s.local_frame_stack) = PyNone THEN raise("TypeError")
                   ELSE IF name \in DOMAIN TopFrame(s)
                        THEN [res |-> Ok, v |-> TopFrame(s)[name]]
                        ELSE raise("KeyError"))
        ELSE IF frame = TF
             THEN [res |-> Ok,
                   v |-> TemporaryFrame_get_var(s.temporary_frame, s.heap, name)]
        ELSE [res |-> Ok, v |-> NoneTuple])

\* set_frame_value: the state with the binding written
set_frame_value(s, text, value) ==
    With(Split(text, Ord("@")), LAMBDA parts :
    LET frame == parts[1]
        name  == parts[2]
    IN  IF Len(parts) # 2 THEN Raise(s, Exc("ValueError"))
        ELSE IF frame = GF
             THEN [s EXCEPT !.global_frame = DictSet(s.global_frame, name, value)]
        ELSE IF frame = LF
             THEN (IF Stack_get_top(s.local_frame_stack) = PyNone
                   THEN Raise(s, Exc("TypeError"))
                   ELSE [s EXCEPT !.heap = HeapSet(s.heap,
                             Stack_get_top(s.local_frame_stack).n, name, value)])
        ELSE IF frame = TF
             THEN [s EXCEPT !.heap = HeapSet(s.heap, s.temporary_frame.data, name, value)]
        ELSE s)

\* `if arg[1] == "var": arg = self.get_frame_value(arg[0])`
Resolve(s, arg) ==
    IF arg.v1 = PyStr(t_var) THEN get_frame_value(s, arg.v0.s)
    ELSE [res |-> Ok, v |-> arg]

\* x[i] on what may be None
Subscript(v) == IF v.tup THEN Ok ELSE Exc("TypeError")

(***************************************************************************)
(* The opcode handlers of class Operations: each maps the state before the *)
(* instruction (the pointer already past it) to the state it leaves, the   *)
(* writes made before an error included.                                   *)
(***************************************************************************)
\* the type check of move: dest is uninitialized, or has the type of the source
\* a type check of move that lets every overwrite through
move_accepts_any(dest_type, src_type) == TRUE

move_accepts(dest_type, src_type) == dest_type = PyNone \/ dest_type = src_type

move(s, ins) ==
    With3(dependency_check(s, ins), get_frame_value(s, ins.arg_list[1].v0.s),
          get_frame_value(s, ins.arg_list[2].v0.s), LAMBDA dc, g1, g2 :
    LET arg1 == ins.arg_list[1].v0.s
        arg2 == ins.arg_list[2]
    IN  IF dc # Ok THEN Raise(s, dc)
        ELSE IF arg2.v1 = PyStr(t_var)
        THEN LET pre == FirstFail(<<g1.res, g2.res, Subscript(g2.v),
                                    IF g2.v.v1 = PyNone THEN Err(56) ELSE Ok,
                                    Subscript(g1.v)>>)
             IN  IF pre # Ok THEN Raise(s, pre)
                 ELSE IF move_accepts(g1.v.v1, g2.v.v1)
                      THEN set_frame_value(s, arg1, g2.v)
                      ELSE Raise(s, Err(53))
        ELSE IF arg2.v1.s \in {t_int, t_string, t_bool, t_nil}
        THEN LET pre == FirstFail(<<g1.res, Subscript(g1.v)>>)
             IN  IF pre # Ok THEN Raise(s, pre)
                 ELSE IF move_accepts(g1.v.v1, arg2.v1)
                      THEN set_frame_value(s, arg1, Tuple(arg2.v0, arg2.v1))
                      ELSE Raise(s, Err(53))
        ELSE Raise(s, Err(53)))

\* a createframe that marks the Temporary frame present without giving it a
\* new dictionary
createframe_keeps(s) ==
    [s EXCEPT !.temporary_frame =
                  TemporaryFrame_set(s.temporary_frame, s.temporary_frame.data)]

createframe(s) ==
    LET id == FreshId(s.heap)
    IN  Collect([s EXCEPT
            !.heap = [k \in (DOMAIN s.heap) \cup {id} |->
                         IF k = id THEN EmptyDict ELSE s.heap[k]],
            !.temporary_frame = TemporaryFrame_set(s.temporary_frame, id)])

\* a pushframe that leaves the Temporary frame present
pushframe_keeps_temporary(s) ==
    IF TemporaryFrame_exists(s.temporary_frame)
    THEN [s EXCEPT
            !.local_frame_stack =
                Stack_append(s.local_frame_stack, PyDict(s.temporary_frame.data))]
    ELSE Raise(s, Err(55))

pushframe(s) ==
    IF TemporaryFrame_exists(s.temporary_frame)
    THEN [s EXCEPT
            !.local_frame_stack =
                Stack_append(s.local_frame_stack, PyDict(s.temporary_frame.data)),
            !.temporary_frame = TemporaryFrame_remove(s.temporary_frame)]
    ELSE Raise(s, Err(55))

popframe(s) ==
    IF Stack_get_top(s.local_frame_stack) # PyNone
    THEN Collect([s EXCEPT
            !.temporary_frame = TemporaryFrame_set(s.temporary_frame,
                                    Stack_get_top(s.local_frame_stack).n),
            !.local_frame_stack = Stack_pop(s.local_frame_stack, PyNone)])
    ELSE Raise(s, Err(55))

defvar(s, ins) ==
    With2(check_arg_types(ins, T(<<"v">>)), Split(ins.arg_list[1].v0.s, Ord("@")),
          LAMBDA ct, parts :
    LET text  == ins.arg_list[1].v0.s
        frame == parts[1]
        name  == parts[2]
    IN  IF ct # Ok THEN Raise(s, ct)
        ELSE IF Len(parts) # 2 THEN Raise(s, Exc("ValueError"))
        ELSE IF frame_exists(s, frame) # Ok THEN Raise(s, frame_exists(s, frame))
        ELSE IF in_frame(s, name, frame) THEN Raise(s, Err(52))
        ELSE set_frame_value(s, text, Uninitialized))

\* the index of the fetched instruction itself
call_return_index_of_call(s) == s.index - 1

\* the index call pushes: flow.get_index(), the pointer after the fetch
call_return_index(s) == s.index

call(s, ins) ==
    LET label  == ins.arg_list[1]
        pushed == [s EXCEPT !.call_stack =
                      Stack_append(s.call_stack, PyInt(call_return_index(s)))]
    IN  IF s.index < 0 THEN Raise(s, Err(99))
        ELSE IF label.v1 # PyStr(t_label) THEN Raise(pushed, Err(57))
        ELSE IF label.v0.s \notin DOMAIN s.label_list THEN Raise(pushed, Err(52))
        ELSE [pushed EXCEPT !.index = s.label_list[label.v0.s]]

return_(s) ==
    LET index == Stack_get_top(s.call_stack)
    IN  IF index = PyNone THEN Raise(s, Err(56))
        ELSE [s EXCEPT !.call_stack = Stack_pop(s.call_stack, PyNone),
                       !.index = index.n]

pushs(s, ins) ==
    With2(dependency_check(s, ins), get_frame_value(s, ins.arg_list[1].v0.s),
          LAMBDA dc, g1 :
    LET arg1 == ins.arg_list[1]
    IN  IF dc # Ok THEN Raise(s, dc)
        ELSE IF arg1.v1 = PyStr(t_var)
        THEN LET pre == FirstFail(<<g1.res, Subscript(g1.v),
                                    IF g1.v.v1 = PyNone THEN Err(56) ELSE Ok>>)
             IN  IF pre # Ok THEN Raise(s, pre)
                 ELSE [s EXCEPT !.data_stack = Stack_append(s.data_stack, g1.v)]
        ELSE IF arg1.v1.s \in {t_type, t_label} THEN Raise(s, Err(53))
        ELSE [s EXCEPT !.data_stack =
                 Stack_append(s.data_stack, Tuple(arg1.v0, arg1.v1))])

\* a type check of pops that does not exempt an uninitialized variable
pops_rejects_uninit(top_type, arg_type, var_type) == top_type # arg_type

\* the type check of pops: the popped value's type against the type of the
\* instruction's argument (which is "var"), unless the variable is uninitialized
pops_rejects(top_type, arg_type, var_type) == top_type # arg_type /\ var_type # PyNone

pops(s, ins) ==
    With2(dependency_check(s, ins), get_frame_value(s, ins.arg_list[1].v0.s),
          LAMBDA dc, g1 :
    LET top_val == Stack_get_top(s.data_stack)
        arg1    == ins.arg_list[1]
        pre     == FirstFail(<<dc, IF top_val = NoneTuple THEN Err(56) ELSE Ok,
                               g1.res, Subscript(g1.v)>>)
    IN  IF pre # Ok THEN Raise(s, pre)
        ELSE IF pops_rejects(top_val.v1, arg1.v1, g1.v.v1) THEN Raise(s, Err(53))
        ELSE LET w == set_frame_value(s, arg1.v0.s, top_val)
             IN  IF w.outcome # Ok THEN w
                 ELSE [w EXCEPT !.data_stack = Stack_pop(s.data_stack, NoneTuple)])

(***************************************************************************)
(* Conversions the handlers apply to a payload.                            *)
(***************************************************************************)
\* int(x): ValueError for a str that is no number, TypeError for None
ToInt(x) ==
    CASE x.py = "int"  -> [res |-> Ok, n |-> x.n]
      [] x.py = "bool" -> [res |-> Ok, n |-> IF x.b THEN 1 ELSE 0]
      [] x.py = "str"  -> IF IntParses(x.s) THEN [res |-> Ok, n |-> IntOfStr(x.s)]
                          ELSE [res |-> Exc("ValueError"), n |-> 0]
      [] OTHER         -> [res |-> Exc("TypeError"), n |-> 0]

\* eval(str(x).lower().capitalize()): the names True and False, a decimal
\* number, or NameError for any other name
EvalCapitalized(x) ==
    With(Capitalize(Lower(Str(x))), LAMBDA txt :
    IF txt = T(<<"T", "r", "u", "e">>) THEN [res |-> Ok, v |-> PyBool(TRUE)]
    ELSE IF txt = T(<<"F", "a", "l", "s", "e">>) THEN [res |-> Ok, v |-> PyBool(FALSE)]
    ELSE IF IsDigit(txt) THEN [res |-> Ok, v |-> PyInt(DigitsValue(txt))]
    ELSE [res |-> Exc("NameError"), v |-> PyNone])

\* a try block's `except ValueError: error(32)`
Except32(res) == IF res = Exc("ValueError") THEN Err(32) ELSE res

\* a division for b # 0 that rounds towards zero
FloorDiv_towards_zero(a, b) ==
    IF (a >= 0) = (b > 0) THEN (IF a >= 0 THEN a \div b ELSE (0 - a) \div (0 - b))
    ELSE 0 - (IF a >= 0 THEN a \div (0 - b) ELSE (0 - a) \div b)

\* a // b for b # 0, rounding towards minus infinity
FloorDiv(a, b) == IF b > 0 THEN a \div b ELSE (0 - a) \div (0 - b)

RECURSIVE StrLess(_, _)
\* a < b on str: lexicographic by code point
StrLess(a, b) ==
    IF Len(b) = 0 THEN FALSE
    ELSE IF Len(a) = 0 THEN TRUE
    ELSE IF a[1] # b[1] THEN a[1] < b[1]
    ELSE StrLess(Tail(a), Tail(b))

\* x < y for two payloads of one Python type (int, bool or str)
PyLess(x, y) ==
    IF x.py = "str" THEN StrLess(x.s, y.s)
    ELSE (IF x.py = "int" THEN x.n ELSE IF x.b THEN 1 ELSE 0)
         < (IF y.py = "int" THEN y.n ELSE IF y.b THEN 1 ELSE 0)

\* s[i] may raise IndexError: the 1-based position of Python's s[i], or 0
PyIndex(s, i) ==
    IF i >= 0 /\ i < Len(s) THEN i + 1
    ELSE IF i < 0 /\ i + Len(s) >= 0 THEN i + Len(s) + 1
    ELSE 0

\* a slice bound as Python clamps it into 0..len
SliceBound(len, i) ==
    IF i < 0 THEN (IF i + len < 0 THEN 0 ELSE i + len)
    ELSE IF i > len THEN len ELSE i

\* s[:i] and s[i:]
SliceTo(s, i) == SubSeq(s, 1, SliceBound(Len(s), i))
SliceFrom(s, i) == SubSeq(s, SliceBound(Len(s), i) + 1, Len(s))

\* `if (arg1[1] is not None) and (arg1[1] != t): error(53)` on the destination
DestCheck(v, t) == IF v.v1 # PyNone /\ v.v1 # PyStr(t) THEN Err(53) ELSE Ok

\* `if arg[1] != t: error(code)` on a resolved operand
TypeCheck(v, t, code) == IF v.v1 # PyStr(t) THEN Err(code) ELSE Ok

\* what every assigning handler starts with: dependency_check, the destination
\* read with get_frame_value, and the operands resolved in turn
Dest(s, ins) == get_frame_value(s, ins.arg_list[1].v0.s)
Src(s, ins, i) == Resolve(s, ins.arg_list[i])
DestText(ins) == ins.arg_list[1].v0.s

math_ops(s, ins, op) ==
    With3(Dest(s, ins), Src(s, ins, 2), Src(s, ins, 3), LAMBDA arg1, arg2, arg3 :
    LET n2   == ToInt(arg2.v.v0)
        n3   == ToInt(arg3.v.v0)
        pre  == FirstFail(<<dependency_check(s, ins), arg1.res, Subscript(arg1.v),
                            DestCheck(arg1.v, t_int),
                            arg2.res, Subscript(arg2.v), TypeCheck(arg2.v, t_int, 53),
                            arg3.res, Subscript(arg3.v), TypeCheck(arg3.v, t_int, 53),
                            Except32(n2.res), Except32(n3.res),
                            IF op = "/" /\ n3.n = 0 THEN Err(57) ELSE Ok,
                            IF op \in {"+", "-", "*", "/"} THEN Ok ELSE Err(99)>>)
        result == CASE op = "+" -> n2.n + n3.n
                    [] op = "-" -> n2.n - n3.n
                    [] op = "*" -> n2.n * n3.n
                    [] OTHER    -> FloorDiv(n2.n, n3.n)
    IN  IF pre # Ok THEN Raise(s, pre)
        ELSE set_frame_value(s, DestText(ins), Tuple(PyInt(result), PyStr(t_int))))

\* eq_result comparing the operands as they are stored, unconverted
eq_result_unconverted(arg2, arg3) ==
    [res |-> IF arg2.v1 # arg3.v1 /\ arg2.v1 # PyStr(t_nil) /\ arg3.v1 # PyStr(t_nil)
             THEN Err(53) ELSE Ok,
     result |-> arg2 = arg3]

\* the part eq and j_eq share: the outcome and the Boolean they compute
eq_result(arg2, arg3) ==
    LET conv(a) == IF a.v1 = PyStr(t_string) THEN [res |-> Ok, v |-> a.v0]
                   ELSE IF a.v1 = PyStr(t_bool) THEN EvalCapitalized(a.v0)
                   ELSE IF a.v1 = PyStr(t_int)
                        THEN With(ToInt(a.v0), LAMBDA n :
                                  [res |-> n.res, v |-> PyInt(n.n)])
                   ELSE [res |-> Ok, v |-> PyNone]
        converted(a) == a.v1.s \in {t_string, t_bool, t_int}
    IN  With2(conv(arg2), conv(arg3), LAMBDA c2, c3 :
    LET pre == FirstFail(<<Subscript(arg2), Subscript(arg3),
                           IF arg2.v1 # arg3.v1 /\ arg2.v1 # PyStr(t_nil)
                                                /\ arg3.v1 # PyStr(t_nil)
                           THEN Err(53) ELSE Ok,
                           Except32(c2.res), Except32(c3.res)>>)
        result == IF arg2.v1 = PyStr(t_nil) /\ arg3.v1 = PyStr(t_nil) THEN TRUE
                  ELSE IF arg2.v1 = PyStr(t_nil) \/ arg3.v1 = PyStr(t_nil) THEN FALSE
                  ELSE IF converted(arg2) /\ converted(arg3) THEN PyEq(c2.v, c3.v)
                  ELSE arg2 = arg3
    IN  [res |-> pre, result |-> pre = Ok /\ result])

eq(s, ins, arg2, arg3) ==
    With(eq_result(arg2, arg3), LAMBDA r :
    IF r.res # Ok THEN Raise(s, r.res)
        ELSE set_frame_value(s, DestText(ins), Tuple(PyBool(r.result), PyStr(t_bool))))

relation_ops(s, ins, op) ==
    With3(Dest(s, ins), Src(s, ins, 2), Src(s, ins, 3), LAMBDA arg1, arg2, arg3 :
    LET pre  == FirstFail(<<dependency_check(s, ins), arg1.res, Subscript(arg1.v),
                            DestCheck(arg1.v, t_bool), arg2.res, Subscript(arg2.v),
                            arg3.res, Subscript(arg3.v)>>)
        args_type == arg2.v.v1
        conv(a) == IF args_type = PyStr(t_int)
                   THEN With(ToInt(a.v0), LAMBDA n : [res |-> n.res, v |-> PyInt(n.n)])
                   ELSE IF args_type = PyStr(t_bool) THEN EvalCapitalized(a.v0)
                   ELSE [res |-> Ok, v |-> a.v0]
    IN  With2(conv(arg2.v), conv(arg3.v), LAMBDA c2, c3 :
    LET cmp == FirstFail(<<IF arg2.v.v1 # arg3.v.v1 THEN Err(53) ELSE Ok,
                           IF args_type.s \in {t_nil, t_lable, t_type}
                           THEN Err(53) ELSE Ok,
                           Except32(c2.res), Except32(c3.res),
                           IF op \in {"<", ">"} THEN Ok ELSE Err(99),
                           IF c2.v.py = "None" \/ c3.v.py = "None"
                              \/ (c2.v.py = "str") # (c3.v.py = "str")
                           THEN Exc("TypeError") ELSE Ok>>)
        result == IF op = ">" THEN PyLess(c3.v, c2.v) ELSE PyLess(c2.v, c3.v)
    IN  IF pre # Ok THEN Raise(s, pre)
        ELSE IF op = "==" THEN eq(s, ins, arg2.v, arg3.v)
        ELSE IF cmp # Ok THEN Raise(s, cmp)
        ELSE set_frame_value(s, DestText(ins), Tuple(PyBool(result), PyStr(t_bool)))))

and_or(s, ins, op) ==
    With3(Dest(s, ins), Src(s, ins, 2), Src(s, ins, 3), LAMBDA arg1, arg2, arg3 :
    With2(EvalCapitalized(arg2.v.v0), EvalCapitalized(arg3.v.v0), LAMBDA e2, e3 :
    LET truthy(x) == IF x.py = "bool" THEN x.b ELSE x.n # 0
        \* `and` and `or` evaluate their right operand only when the left one
        \* does not decide
        right == IF op = "and" THEN truthy(e2.v) ELSE ~truthy(e2.v)
        pre  == FirstFail(<<dependency_check(s, ins), arg1.res, Subscript(arg1.v),
                            DestCheck(arg1.v, t_bool),
                            arg2.res, Subscript(arg2.v), TypeCheck(arg2.v, t_bool, 53),
                            arg3.res, Subscript(arg3.v), TypeCheck(arg3.v, t_bool, 53),
                            IF op \in {"and", "or"} THEN Ok ELSE Err(99),
                            e2.res, IF right THEN e3.res ELSE Ok>>)
        result == IF right THEN e3.v ELSE e2.v
    IN  IF pre # Ok THEN Raise(s, pre)
        ELSE set_frame_value(s, DestText(ins), Tuple(result, PyStr(t_bool)))))

\* `not bool(arg2[0].lower().capitalize())`: bool() of a str is whether it is
\* non-empty; a payload that is no str has no lower()
not_result(x) == PyBool(~(Len(Capitalize(Lower(x.s))) > 0))

not_(s, ins) ==
    With2(Dest(s, ins), Src(s, ins, 2), LAMBDA arg1, arg2 :
    LET pre  == FirstFail(<<dependency_check(s, ins), arg1.res, Subscript(arg1.v),
                            DestCheck(arg1.v, t_bool),
                            arg2.res, Subscript(arg2.v), TypeCheck(arg2.v, t_bool, 53),
                            IF arg2.v.v0.py # "str" THEN Exc("AttributeError") ELSE Ok>>)
    IN  IF pre # Ok THEN Raise(s, pre)
        ELSE set_frame_value(s, DestText(ins),
                             Tuple(not_result(arg2.v.v0), PyStr(t_bool))))

\* the largest code point chr() accepts
MaxCodePoint == 1114111

int2char(s, ins) ==
    With2(Dest(s, ins), Src(s, ins, 2), LAMBDA arg1, arg2 :
    LET n2   == ToInt(arg2.v.v0)
        pre  == FirstFail(<<dependency_check(s, ins), arg1.res, Subscript(arg1.v),
                            DestCheck(arg1.v, t_string),
                            arg2.res, Subscript(arg2.v), TypeCheck(arg2.v, t_int, 58),
                            Except32(n2.res),
                            IF n2.n < 0 \/ n2.n > MaxCodePoint THEN Err(32) ELSE Ok>>)
    IN  IF pre # Ok THEN Raise(s, pre)
        ELSE set_frame_value(s, DestText(ins), Tuple(PyStr(<<n2.n>>), PyStr(t_string))))

\* stri2int and getchar: the checks, then the character arg2[0][int(arg3[0])]
char_at(s, ins, dest_type) ==
    With3(Dest(s, ins), Src(s, ins, 2), Src(s, ins, 3), LAMBDA arg1, arg2, arg3 :
    LET n3   == ToInt(arg3.v.v0)
        pos  == PyIndex(arg2.v.v0.s, n3.n)
        pre  == FirstFail(<<dependency_check(s, ins), arg1.res, Subscript(arg1.v),
                            DestCheck(arg1.v, dest_type),
                            arg2.res, Subscript(arg2.v), TypeCheck(arg2.v, t_string, 53),
                            arg3.res, Subscript(arg3.v), TypeCheck(arg3.v, t_int, 53),
                            Except32(n3.res),
                            IF pos = 0 THEN Err(58) ELSE Ok>>)
    IN  [res |-> pre, c |-> IF pre = Ok THEN arg2.v.v0.s[pos] ELSE 0])

stri2int(s, ins) ==
    With(char_at(s, ins, t_int), LAMBDA r :
    IF r.res # Ok THEN Raise(s, r.res)
        ELSE set_frame_value(s, DestText(ins), Tuple(PyInt(r.c), PyStr(t_int))))

getchar(s, ins) ==
    With(char_at(s, ins, t_string), LAMBDA r :
    IF r.res # Ok THEN Raise(s, r.res)
        ELSE set_frame_value(s, DestText(ins), Tuple(PyStr(<<r.c>>), PyStr(t_string))))

\* `# TODO skip for now`
read(s, ins) == s

\* what a print() call puts on standard output: a text, or the dict it shows
\* followed by the text of `end`
Printed(text) == [text |-> text, dict |-> EmptyDict, shows_dict |-> FALSE]
PrintedDict(dict, end) == [text |-> end, dict |-> dict, shows_dict |-> TRUE]

\* what print() writes for a payload
write_text(v) ==
    IF v.v1 = PyStr(t_nil) THEN <<>>
    ELSE IF v.v1 = PyStr(t_bool) THEN Lower(v.v0.s)
    ELSE Str(v.v0)

write(s, ins) ==
    With(Src(s, ins, 1), LAMBDA arg1 :
    LET pre  == FirstFail(<<dependency_check(s, ins), arg1.res, Subscript(arg1.v),
                            IF arg1.v.v1 = PyStr(t_bool) /\ arg1.v.v0.py # "str"
                            THEN Exc("AttributeError") ELSE Ok>>)
    IN  IF pre # Ok THEN Raise(s, pre)
        ELSE [s EXCEPT !.stdout = Append(s.stdout, Printed(write_text(arg1.v)))])

concat(s, ins) ==
    With3(Dest(s, ins), Src(s, ins, 2), Src(s, ins, 3), LAMBDA arg1, arg2, arg3 :
    LET pre  == FirstFail(<<dependency_check(s, ins), arg1.res, Subscript(arg1.v),
                            DestCheck(arg1.v, t_string),
                            arg2.res, Subscript(arg2.v), TypeCheck(arg2.v, t_string, 53),
                            arg3.res, Subscript(arg3.v), TypeCheck(arg3.v, t_string, 53)>>)
    IN  IF pre # Ok THEN Raise(s, pre)
        ELSE set_frame_value(s, DestText(ins),
                 Tuple(PyStr(arg2.v.v0.s \o arg3.v.v0.s), PyStr(t_string))))

strlen(s, ins) ==
    With2(Dest(s, ins), Src(s, ins, 2), LAMBDA arg1, arg2 :
    LET pre  == FirstFail(<<dependency_check(s, ins), arg1.res, Subscript(arg1.v),
                            DestCheck(arg1.v, t_int),
                            arg2.res, Subscript(arg2.v), TypeCheck(arg2.v, t_string, 53)>>)
    IN  IF pre # Ok THEN Raise(s, pre)
        ELSE set_frame_value(s, DestText(ins),
                 Tuple(PyInt(Len(arg2.v.v0.s)), PyStr(t_int))))

setchar(s, ins) ==
    With3(Dest(s, ins), Src(s, ins, 2), Src(s, ins, 3), LAMBDA arg1, arg2, arg3 :
    LET n2   == ToInt(arg2.v.v0)
        pre  == FirstFail(<<dependency_check(s, ins), arg1.res, Subscript(arg1.v),
                            TypeCheck(arg1.v, t_string, 53),
                            arg2.res, Subscript(arg2.v), TypeCheck(arg2.v, t_int, 53),
                            arg3.res, Subscript(arg3.v), TypeCheck(arg3.v, t_string, 53),
                            Except32(n2.res),
                            IF Len(arg3.v.v0.s) = 0 THEN Err(58) ELSE Ok>>)
        result == SliceTo(arg1.v.v0.s, n2.n) \o <<arg3.v.v0.s[1]>>
                      \o SliceFrom(arg1.v.v0.s, n2.n + 1)
    IN  IF pre # Ok THEN Raise(s, pre)
        ELSE set_frame_value(s, DestText(ins), Tuple(PyStr(result), PyStr(t_string))))

type_(s, ins) ==
    With2(Dest(s, ins), Src(s, ins, 2), LAMBDA arg1, arg2 :
    LET pre  == FirstFail(<<dependency_check(s, ins), arg1.res, Subscript(arg1.v),
                            DestCheck(arg1.v, t_string),
                            arg2.res, Subscript(arg2.v)>>)
    IN  IF pre # Ok THEN Raise(s, pre)
        ELSE IF arg2.v.v1 = PyNone
             THEN set_frame_value(s, DestText(ins), Tuple(PyStr(<<>>), PyStr(t_string)))
             ELSE set_frame_value(s, DestText(ins), Tuple(arg2.v.v1, PyStr(t_string))))

label(s, ins) == s

jump(s, ins) ==
    LET lab == ins.arg_list[1]
    IN  IF lab.v1 # PyStr(t_label) THEN Raise(s, Err(57))
        ELSE IF lab.v0.s \notin DOMAIN s.label_list THEN Raise(s, Err(52))
        ELSE [s EXCEPT !.index = s.label_list[lab.v0.s]]

j_eq(arg2, arg3) == eq_result(arg2, arg3)

\* jumpifeq and jumpifneq resolve their operands without dependency_check
jump_operands(s, ins) ==
    With2(Src(s, ins, 2), Src(s, ins, 3), LAMBDA arg2, arg3 :
    LET r    == j_eq(arg2.v, arg3.v)
    IN  [res |-> FirstFail(<<arg2.res, arg3.res, r.res>>), result |-> r.result])

jumpifeq(s, ins) ==
    With(jump_operands(s, ins), LAMBDA r :
    IF r.res # Ok THEN Raise(s, r.res)
        ELSE IF r.result THEN jump(s, ins) ELSE s)

jumpifneq(s, ins) ==
    With(jump_operands(s, ins), LAMBDA r :
    IF r.res # Ok THEN Raise(s, r.res)
        ELSE IF ~r.result THEN jump(s, ins) ELSE s)

\* the range check of exit_ without its lower end
exit_rejects_above(errcode) == errcode > 49

\* `if (errcode < 0) or (errcode > 49): error(57)`
exit_rejects(errcode) == errcode < 0 \/ errcode > 49

exit_(s, ins) ==
    With(Src(s, ins, 1), LAMBDA arg1 :
    LET n1   == ToInt(arg1.v.v0)
        pre  == FirstFail(<<dependency_check(s, ins), arg1.res, Subscript(arg1.v),
                            TypeCheck(arg1.v, t_int, 53), Except32(n1.res),
                            IF exit_rejects(n1.n) THEN Err(57) ELSE Ok>>)
    IN  IF pre # Ok THEN Raise(s, pre) ELSE Raise(s, Err(n1.n)))

dprint(s, ins) ==
    With(Src(s, ins, 1), LAMBDA arg1 :
    LET pre  == FirstFail(<<dependency_check(s, ins), arg1.res, Subscript(arg1.v)>>)
    IN  IF pre # Ok THEN Raise(s, pre)
        ELSE [s EXCEPT !.stderr = Append(s.stderr,
                 [kind |-> "DPRINT", text |-> Str(arg1.v.v0), n |-> 0])])

\* break_ reports index + 1 with index = flow.get_index() - 1 as the number of
\* performed instructions; print_stack writes the frames of the local frame
\* stack with print(item, end=" "), which goes to standard output
break_(s) ==
    LET index == s.index - 1
        shown == [i \in 1..Len(s.local_frame_stack.stack) |->
                     PrintedDict(s.heap[s.local_frame_stack.stack[i].n], <<32>>)]
    IN  IF s.index < 0 THEN Raise(s, Err(99))
        ELSE IF index >= Len(s.sorted_ins) THEN Raise(s, Exc("IndexError"))
        ELSE [s EXCEPT !.stdout = s.stdout \o shown,
                       !.stderr = Append(s.stderr,
                           [kind |-> "BREAK", text |-> <<>>, n |-> index + 1])]

\* dispatch_table: the arity of every opcode it holds
dispatch_arity ==
    [op \in {"CREATEFRAME", "PUSHFRAME", "POPFRAME", "RETURN", "BREAK"} |-> 0]
    @@ [op \in {"DEFVAR", "CALL", "PUSHS", "POPS", "WRITE", "JUMP", "EXIT",
                "DPRINT"} |-> 1]
    @@ [op \in {"MOVE", "NOT", "INT2CHAR", "READ", "STRLEN", "TYPE"} |-> 2]
    @@ [op \in {"ADD", "SUB", "MUL", "IDIV", "LT", "GT", "EQ", "AND", "OR",
                "STRI2INT", "CONCAT", "GETCHAR", "SETCHAR", "JUMPIFEQ",
                "JUMPIFNEQ"} |-> 3]

\* run_instruction letting an instruction with surplus arguments through
run_instruction_surplus(s, ins, handled) ==
    IF ins.opcode = "LABEL" THEN s
    ELSE IF ins.opcode \notin DOMAIN dispatch_arity THEN Raise(s, Err(32))
    ELSE IF dispatch_arity[ins.opcode] > Len(ins.arg_list) THEN Raise(s, Err(32))
    ELSE handled

\* run_instruction, with `handled` the state the handler dispatch_table names
\* for the opcode leaves
run_instruction(s, ins, handled) ==
    IF ins.opcode = "LABEL" THEN s
    ELSE IF ins.opcode \notin DOMAIN dispatch_arity THEN Raise(s, Err(32))
    ELSE IF dispatch_arity[ins.opcode] # Len(ins.arg_list) THEN Raise(s, Err(32))
    ELSE handled

(***************************************************************************)
(* The state and the steps of Interpret.interpret.                         *)
(***************************************************************************)
VARIABLES sorted_ins, label_list, index, ins, data_stack, local_frame_stack,
          call_stack, global_frame, temporary_frame, heap, stdout, stderr,
          outcome,
          \* FlowControl: the instruction children of the document that
          \* initialize has still to load, and the flag initialize sets
          root, init,
          \* history: the number of turns the loop of interpret() has made,
          \* counted up to MaxPerformed
          performed

vars == <<sorted_ins, label_list, index, ins, data_stack, local_frame_stack,
          call_stack, global_frame, temporary_frame, heap, stdout, stderr,
          outcome, root, init, performed>>

\* the state as the record the handlers take
St == [sorted_ins |-> sorted_ins, label_list |-> label_list, index |-> index,
       ins |-> ins, data_stack |-> data_stack,
       local_frame_stack |-> local_frame_stack, call_stack |-> call_stack,
       global_frame |-> global_frame, temporary_frame |-> temporary_frame,
       heap |-> heap, stdout |-> stdout, stderr |-> stderr, outcome |-> outcome]

\* the next state of the Interpret object and of the run is s
Assign(s) ==
    /\ sorted_ins' = s.sorted_ins
    /\ label_list' = s.label_list
    /\ index' = s.index
    /\ ins' = s.ins
    /\ data_stack' = s.data_stack
    /\ local_frame_stack' = s.local_frame_stack
    /\ call_stack' = s.call_stack
    /\ global_frame' = s.global_frame
    /\ temporary_frame' = s.temporary_frame
    /\ heap' = s.heap
    /\ stdout' = s.stdout
    /\ stderr' = s.stderr
    /\ outcome' = s.outcome

\* the next state is s: a step of the run, which loads no document
Becomes(s) == Assign(s) /\ UNCHANGED <<root, init>>

\* the loop of interpret() has made one more turn
Counted ==
    performed' = IF performed < MaxPerformed THEN performed + 1 ELSE performed

\* an element of the document that no fetch has read yet, and what
\* next_instruction returns past the end
Unread == [opcode |-> "", args |-> <<>>]
PastEnd == [opcode |-> "-1", args |-> <<>>]

\* the names of the labels of a label map that point at index i
LabelsAt(labels, i) == {l \in DOMAIN labels : labels[l] = i}

\* next_instruction when it returns elem, the element at the pointer.  The
\* document is fixed before the run; the model reads it as the run reaches
\* it.  With `keep` the element is kept for a later fetch at the same index;
\* without it the program has no taken jump, a fetch never returns to an
\* index, and what was fetched is forgotten.
Fetched(elem, keep) ==
    [St EXCEPT !.index = index + 1, !.ins = elem,
               !.sorted_ins = IF keep THEN [sorted_ins EXCEPT ![index + 1] = elem]
                              ELSE sorted_ins]

\* the Instruction object the loop builds from the element
Decoded(elem) == Instruction(elem).ins

\* One turn of the loop of interpret: next_instruction, Instruction(elem),
\* run_instruction, with `handled` the state the opcode's handler leaves.
Turn(elem, keep, handled) ==
    /\ outcome = Ok
    /\ index < Len(sorted_ins)
    /\ sorted_ins[index + 1] \in {Unread, elem}
    /\ IF LabelsAt(label_list, index) # {}
       THEN /\ elem.opcode = "LABEL"
            /\ Len(elem.args) = 1
            /\ elem.args[1].text \in LabelsAt(label_list, index)
       ELSE elem.opcode # "LABEL"
    /\ With(Instruction(elem).res, LAMBDA res :
            Becomes(IF res # Ok
                    THEN Raise(Fetched(elem, keep), res)
                    ELSE run_instruction(Fetched(elem, keep), Decoded(elem), handled)))
    /\ Counted

\* the pointer is past the last instruction: next_instruction returns -1, the
\* loop ends and main calls sys.exit(0)
EndOfProgram ==
    /\ outcome = Ok
    /\ index >= Len(sorted_ins)
    /\ Becomes([St EXCEPT !.index = index + 1, !.ins = PastEnd, !.outcome = Err(0)])
    /\ UNCHANGED performed

\* FlowControl.initialize on a document whose instructions carry distinct
\* positive order keys: the (key, element) pairs by ascending key
FlowControl_initialize(doc) ==
    [i \in 1..Len(doc) |->
        CHOOSE p \in {doc[k] : k \in 1..Len(doc)} :
            Cardinality({k \in 1..Len(doc) : doc[k].order < p.order}) = i - 1]

\* get_all_labels storing the order key of a LABEL instead of its index
get_all_labels_by_order(pairs) ==
    LET at == {i \in 1..Len(pairs) : pairs[i].elem.opcode = "LABEL"}
        name(i) == pairs[i].elem.args[1].text
    IN  [res |-> IF \E i, j \in at : i # j /\ name(i) = name(j) THEN Err(52) ELSE Ok,
         label_list |-> [l \in {name(i) : i \in at} |->
                            pairs[CHOOSE i \in at : name(i) = l].order]]

\* get_all_labels letting a later LABEL of the same name replace the earlier
get_all_labels_last_wins(pairs) ==
    LET at == {i \in 1..Len(pairs) : pairs[i].elem.opcode = "LABEL"}
        name(i) == pairs[i].elem.args[1].text
    IN  [res |-> Ok,
         label_list |-> [l \in {name(i) : i \in at} |->
                            (CHOOSE i \in at : name(i) = l /\ \A j \in at : name(j) = l => j <= i) - 1]]

\* get_all_labels: the 0-based index in the sorted sequence of each LABEL
\* instruction under the text of its arg1, error 52 for a text met twice
get_all_labels(pairs) ==
    LET at == {i \in 1..Len(pairs) : pairs[i].elem.opcode = "LABEL"}
        name(i) == pairs[i].elem.args[1].text
    IN  [res |-> IF \E i, j \in at : i # j /\ name(i) = name(j) THEN Err(52) ELSE Ok,
         label_list |-> [l \in {name(i) : i \in at} |->
                            (CHOOSE i \in at : name(i) = l) - 1]]

\* Interpret.__init__ with the sorted instructions and the label map given
InitLoaded(program, labels) ==
    /\ sorted_ins = program
    /\ label_list = labels
    /\ index = 0
    /\ ins = Unread
    /\ data_stack = Stack_init(NoneTuple)
    /\ local_frame_stack = Stack_init(PyNone)
    /\ call_stack = Stack_init(PyNone)
    /\ global_frame = EmptyDict
    /\ temporary_frame = TemporaryFrame_init
    /\ heap = [id \in {0} |-> EmptyDict]
    /\ stdout = <<>>
    /\ stderr = <<>>
    /\ outcome = Ok
    /\ root = <<>>
    /\ init = TRUE
    /\ performed = 0

\* Interpret.__init__ for a document of n instructions with the labels `labels`
InitWith(n, labels) == InitLoaded([i \in 1..n |-> Unread], labels)

\* Interpret.__init__ for the document doc, when it loads
InitDoc(doc) ==
    With(FlowControl_initialize(doc), LAMBDA pairs :
    With(get_all_labels(pairs), LAMBDA loaded :
        /\ loaded.res = Ok
        /\ InitLoaded([i \in 1..Len(pairs) |-> pairs[i].elem], loaded.label_list)))

NoLabels == [l \in {} |-> 0]

\* an <instruction> child of the root: the text of its order attribute, if it
\* has one (keyed), and the element
Child(keyed, order, elem) == [keyed |-> keyed, order |-> order, elem |-> elem]

\* the loop of FlowControl.initialize accepting the order key 0
orders_accepted_from_zero(children) ==
    /\ \A k \in 1..Len(children) :
           /\ children[k].keyed
           /\ IntParses(children[k].order)
           /\ IntOfStr(children[k].order) >= 0
    /\ \A j, k \in 1..Len(children) :
           j # k => IntOfStr(children[j].order) # IntOfStr(children[k].order)

\* the loop of FlowControl.initialize over the children passes no error(32):
\* every child has an order attribute (no KeyError) that int() parses (no
\* ValueError) to a number above 0 that no earlier child has
orders_accepted(children) ==
    /\ \A k \in 1..Len(children) :
           /\ children[k].keyed
           /\ IntParses(children[k].order)
           /\ IntOfStr(children[k].order) > 0
    /\ \A j, k \in 1..Len(children) :
           j # k => IntOfStr(children[j].order) # IntOfStr(children[k].order)

\* FlowControl.initialize on the children of the root: error 32, or the
\* (key, element) pairs by ascending key
FlowControl_load(children) ==
    IF ~orders_accepted(children) THEN [res |-> Err(32), pairs |-> <<>>]
    ELSE [res |-> Ok,
          pairs |-> FlowControl_initialize(
                        [k \in 1..Len(children) |->
                            [order |-> IntOfStr(children[k].order),
                             elem |-> children[k].elem]])]

\* the Interpret object __init__ leaves for a program and a label map, or
\* what there is of it when __init__ ended the run with `result`
Constructed(program, labels, result) ==
    [sorted_ins |-> program, label_list |-> labels, index |-> 0, ins |-> Unread,
     data_stack |-> Stack_init(NoneTuple), local_frame_stack |-> Stack_init(PyNone),
     call_stack |-> Stack_init(PyNone), global_frame |-> EmptyDict,
     temporary_frame |-> TemporaryFrame_init, heap |-> [id \in {0} |-> EmptyDict],
     stdout |-> <<>>, stderr |-> <<>>, outcome |-> result]

\* before Interpret.__init__: FlowControl holds the document, init is False
InitRoot(children) ==
    /\ sorted_ins = <<>>
    /\ label_list = NoLabels
    /\ index = 0
    /\ ins = Unread
    /\ data_stack = Stack_init(NoneTuple)
    /\ local_frame_stack = Stack_init(PyNone)
    /\ call_stack = Stack_init(PyNone)
    /\ global_frame = EmptyDict
    /\ temporary_frame = TemporaryFrame_init
    /\ heap = [id \in {0} |-> EmptyDict]
    /\ stdout = <<>>
    /\ stderr = <<>>
    /\ outcome = Ok
    /\ root = children
    /\ init = FALSE
    /\ performed = 0

\* Interpret.__init__: flow.initialize(), the stacks and frames, then
\* get_all_labels().  Nothing reads the root after initialize.
Interpret_init ==
    /\ ~init
    /\ outcome = Ok
    /\ init' = TRUE
    /\ root' = <<>>
    /\ UNCHANGED performed
    /\ With(FlowControl_load(root), LAMBDA flow :
         IF flow.res # Ok THEN Assign(Constructed(<<>>, NoLabels, flow.res))
         ELSE With(get_all_labels(flow.pairs), LAMBDA loaded :
              Assign(Constructed([i \in 1..Len(flow.pairs) |-> flow.pairs[i].elem],
                                 loaded.label_list, loaded.res))))

(***************************************************************************)
(* One action per opcode: the loop's turn for an element with that opcode, *)
(* drawn from the elements A a document may hold.                          *)
(***************************************************************************)
MOVE(A, keep) ==
    \E elem \in A : elem.opcode = "MOVE" /\ Turn(elem, keep, move(Fetched(elem, keep), Decoded(elem)))

CREATEFRAME(A, keep) ==
    \E elem \in A : elem.opcode = "CREATEFRAME" /\ Turn(elem, keep, createframe(Fetched(elem, keep)))

PUSHFRAME(A, keep) ==
    \E elem \in A : elem.opcode = "PUSHFRAME" /\ Turn(elem, keep, pushframe(Fetched(elem, keep)))

POPFRAME(A, keep) ==
    \E elem \in A : elem.opcode = "POPFRAME" /\ Turn(elem, keep, popframe(Fetched(elem, keep)))

DEFVAR(A, keep) ==
    \E elem \in A : elem.opcode = "DEFVAR" /\ Turn(elem, keep, defvar(Fetched(elem, keep), Decoded(elem)))

CALL(A, keep) ==
    \E elem \in A : elem.opcode = "CALL" /\ Turn(elem, keep, call(Fetched(elem, keep), Decoded(elem)))

RETURN(A, keep) ==
    \E elem \in A : elem.opcode = "RETURN" /\ Turn(elem, keep, return_(Fetched(elem, keep)))

PUSHS(A, keep) ==
    \E elem \in A : elem.opcode = "PUSHS" /\ Turn(elem, keep, pushs(Fetched(elem, keep), Decoded(elem)))

POPS(A, keep) ==
    \E elem \in A : elem.opcode = "POPS" /\ Turn(elem, keep, pops(Fetched(elem, keep), Decoded(elem)))

ADD(A, keep) ==
    \E elem \in A : elem.opcode = "ADD" /\ Turn(elem, keep, math_ops(Fetched(elem, keep), Decoded(elem), "+"))

SUB(A, keep) ==
    \E elem \in A : elem.opcode = "SUB" /\ Turn(elem, keep, math_ops(Fetched(elem, keep), Decoded(elem), "-"))

MUL(A, keep) ==
    \E elem \in A : elem.opcode = "MUL" /\ Turn(elem, keep, math_ops(Fetched(elem, keep), Decoded(elem), "*"))

IDIV(A, keep) ==
    \E elem \in A : elem.opcode = "IDIV" /\ Turn(elem, keep, math_ops(Fetched(elem, keep), Decoded(elem), "/"))

LT(A, keep) ==
    \E elem \in A : elem.opcode = "LT" /\ Turn(elem, keep, relation_ops(Fetched(elem, keep), Decoded(elem), "<"))

GT(A, keep) ==
    \E elem \in A : elem.opcode = "GT" /\ Turn(elem, keep, relation_ops(Fetched(elem, keep), Decoded(elem), ">"))

EQ(A, keep) ==
    \E elem \in A : elem.opcode = "EQ" /\ Turn(elem, keep, relation_ops(Fetched(elem, keep), Decoded(elem), "=="))

AND(A, keep) ==
    \E elem \in A : elem.opcode = "AND" /\ Turn(elem, keep, and_or(Fetched(elem, keep), Decoded(elem), "and"))

OR(A, keep) ==
    \E elem \in A : elem.opcode = "OR" /\ Turn(elem, keep, and_or(Fetched(elem, keep), Decoded(elem), "or"))

NOT(A, keep) ==
    \E elem \in A : elem.opcode = "NOT" /\ Turn(elem, keep, not_(Fetched(elem, keep), Decoded(elem)))

INT2CHAR(A, keep) ==
    \E elem \in A : elem.opcode = "INT2CHAR" /\ Turn(elem, keep, int2char(Fetched(elem, keep), Decoded(elem)))

STRI2INT(A, keep) ==
    \E elem \in A : elem.opcode = "STRI2INT" /\ Turn(elem, keep, stri2int(Fetched(elem, keep), Decoded(elem)))

READ(A, keep) ==
    \E elem \in A : elem.opcode = "READ" /\ Turn(elem, keep, read(Fetched(elem, keep), Decoded(elem)))

WRITE(A, keep) ==
    \E elem \in A : elem.opcode = "WRITE" /\ Turn(elem, keep, write(Fetched(elem, keep), Decoded(elem)))

CONCAT(A, keep) ==
    \E elem \in A : elem.opcode = "CONCAT" /\ Turn(elem, keep, concat(Fetched(elem, keep), Decoded(elem)))

STRLEN(A, keep) ==
    \E elem \in A : elem.opcode = "STRLEN" /\ Turn(elem, keep, strlen(Fetched(elem, keep), Decoded(elem)))

GETCHAR(A, keep) ==
    \E elem \in A : elem.opcode = "GETCHAR" /\ Turn(elem, keep, getchar(Fetched(elem, keep), Decoded(elem)))

SETCHAR(A, keep) ==
    \E elem \in A : elem.opcode = "SETCHAR" /\ Turn(elem, keep, setchar(Fetched(elem, keep), Decoded(elem)))

TYPE(A, keep) ==
    \E elem \in A : elem.opcode = "TYPE" /\ Turn(elem, keep, type_(Fetched(elem, keep), Decoded(elem)))

\* an opcode dispatch_table does not hold: the lookup raises KeyError and no
\* handler is chosen
UnknownOpcode(A, keep) ==
    \E elem \in A : /\ elem.opcode \notin DOMAIN dispatch_arity \cup {"LABEL"}
                    /\ Turn(elem, keep, Fetched(elem, keep))

LABEL(A, keep) ==
    \E elem \in A : elem.opcode = "LABEL" /\ Turn(elem, keep, label(Fetched(elem, keep), Decoded(elem)))

JUMP(A, keep) ==
    \E elem \in A : elem.opcode = "JUMP" /\ Turn(elem, keep, jump(Fetched(elem, keep), Decoded(elem)))

JUMPIFEQ(A, keep) ==
    \E elem \in A : elem.opcode = "JUMPIFEQ" /\ Turn(elem, keep, jumpifeq(Fetched(elem, keep), Decoded(elem)))

JUMPIFNEQ(A, keep) ==
    \E elem \in A : elem.opcode = "JUMPIFNEQ" /\ Turn(elem, keep, jumpifneq(Fetched(elem, keep), Decoded(elem)))

EXIT(A, keep) ==
    \E elem \in A : elem.opcode = "EXIT" /\ Turn(elem, keep, exit_(Fetched(elem, keep), Decoded(elem)))

DPRINT(A, keep) ==
    \E elem \in A : elem.opcode = "DPRINT" /\ Turn(elem, keep, dprint(Fetched(elem, keep), Decoded(elem)))

BREAK(A, keep) ==
    \E elem \in A : elem.opcode = "BREAK" /\ Turn(elem, keep, break_(Fetched(elem, keep)))

(***************************************************************************)
(* The documents the model runs: elements built from a few variables and   *)
(* literals.                                                               *)
(***************************************************************************)
Arg(type, text) == [type |-> type, text |-> text]

\* the element <instruction opcode=...> with children arg1, arg2, ... in order
Elem(opcode, args) ==
    [opcode |-> opcode,
     args |-> [i \in 1..Len(args) |->
                  [tag |-> i, type |-> args[i].type, text |-> args[i].text]]]

Var(frame, name) == Arg(t_var, frame \o <<Ord("@")>> \o name)

GF_a == Var(GF, T(<<"a">>))
GF_b == Var(GF, T(<<"b">>))
TF_b == Var(TF, T(<<"b">>))
LF_b == Var(LF, T(<<"b">>))
TF_a == Var(TF, T(<<"a">>))
LF_a == Var(LF, T(<<"a">>))
Int_1 == Arg(t_int, T(<<"1">>))
Int_2 == Arg(t_int, T(<<"2">>))
Str_a == Arg(t_string, T(<<"a">>))
Bool_true == Arg(t_bool, T(<<"t", "r", "u", "e">>))
Bool_false == Arg(t_bool, T(<<"f", "a", "l", "s", "e">>))
Nil == Arg(t_nil, t_nil)
\* other spellings and values of the literals
Int_0 == Arg(t_int, T(<<"0">>))
Int_49 == Arg(t_int, T(<<"4", "9">>))
Int_50 == Arg(t_int, T(<<"5", "0">>))
Int_minus1 == Arg(t_int, T(<<"-", "1">>))
Int_plus1 == Arg(t_int, T(<<"+", "1">>))
Str_b == Arg(t_string, T(<<"b">>))
Str_escaped_a == Arg(t_string, <<Backslash>> \o T(<<"0", "9", "7">>))
\* a string literal whose text reads as a variable reference
Str_GF_a == Arg(t_string, GF_a.text)
\* labels; the programs of SpecOps define none
Lbl_L == Arg(t_label, T(<<"L">>))
Lbl_M == Arg(t_label, T(<<"M">>))
\* the type operand of READ
Type_int == Arg(t_type, t_int)

Elems0(opcodes) == {Elem(op, <<>>) : op \in opcodes}
Elems1(opcodes, A1) == {Elem(op, <<a1>>) : op \in opcodes, a1 \in A1}
Elems2(opcodes, A1, A2) == {Elem(op, <<a1, a2>>) : op \in opcodes, a1 \in A1, a2 \in A2}
Elems3(opcodes, A1, A2, A3) ==
    {Elem(op, <<a1, a2, a3>>) : op \in opcodes, a1 \in A1, a2 \in A2, a3 \in A3}

(***************************************************************************)
(* Spec: programs of frame, variable and data stack instructions.          *)
(***************************************************************************)
CoreVars == {GF_a, TF_a, LF_a}
CoreSyms == CoreVars \cup {Int_1, Int_2, Str_a}

CoreElems ==
    Elems0({"CREATEFRAME", "PUSHFRAME", "POPFRAME"})
    \cup Elems1({"DEFVAR", "POPS"}, CoreVars)
    \cup Elems1({"POPS"}, {Str_GF_a})
    \cup Elems1({"PUSHS"}, CoreSyms)
    \cup Elems2({"MOVE"}, CoreVars, CoreSyms)

Init == InitWith(ProgLen, NoLabels)

Next ==
    \/ CREATEFRAME(CoreElems, FALSE)
    \/ PUSHFRAME(CoreElems, FALSE)
    \/ POPFRAME(CoreElems, FALSE)
    \/ DEFVAR(CoreElems, FALSE)
    \/ MOVE(CoreElems, FALSE)
    \/ PUSHS(CoreElems, FALSE)
    \/ POPS(CoreElems, FALSE)
    \/ EndOfProgram

Spec == Init /\ [][Next]_vars

(***************************************************************************)
(* SpecOps: short programs over every opcode but the ones that need a      *)
(* label (LABEL, JUMP, CALL), to see how each handler treats an operand    *)
(* that is undefined, uninitialized or in a frame that does not exist.  No *)
(* document of SpecOps has a label.                                        *)
(***************************************************************************)
OpsVars == {GF_a, TF_a, LF_a}

\* the two source operands of a three-operand instruction
OpsPairs ==
    {<<GF_a, GF_a>>, <<GF_a, Int_1>>, <<Int_1, Int_1>>, <<Str_a, Str_a>>,
     <<Bool_true, Bool_true>>, <<Str_a, Int_1>>, <<TF_a, TF_a>>, <<LF_a, LF_a>>}

OpsThree ==
    {"ADD", "SUB", "MUL", "IDIV", "LT", "GT", "EQ", "AND", "OR",
     "STRI2INT", "CONCAT", "GETCHAR", "SETCHAR"}

OpsTwo == {"MOVE", "NOT", "INT2CHAR", "STRLEN", "TYPE"}

OpsOne == {"PUSHS", "WRITE", "EXIT", "DPRINT"}

OpsElems ==
    Elems0({"CREATEFRAME", "PUSHFRAME", "POPFRAME", "RETURN", "BREAK"})
    \cup Elems1({"DEFVAR", "POPS"}, OpsVars)
    \cup Elems1(OpsOne, OpsVars \cup {Int_1, Str_a})
    \cup Elems2(OpsTwo, {GF_a}, OpsVars \cup {Int_1, Str_a, Bool_true})
    \cup Elems2(OpsTwo, {TF_a, LF_a}, {Int_1})
    \cup Elems2({"NOT"}, {GF_a}, {Bool_false})
    \cup Elems2({"READ"}, OpsVars, {Type_int})
    \cup {Elem(op, <<GF_a, p[1], p[2]>>) : op \in OpsThree, p \in OpsPairs}
    \cup Elems3(OpsThree, {TF_a, LF_a}, {Int_1}, {Int_1})
    \cup {Elem(op, <<Lbl_L, p[1], p[2]>>) : op \in {"JUMPIFEQ", "JUMPIFNEQ"},
                                            p \in OpsPairs}

InitOps == InitWith(OpsLen, NoLabels)

NextOps ==
    \/ CREATEFRAME(OpsElems, FALSE)
    \/ PUSHFRAME(OpsElems, FALSE)
    \/ POPFRAME(OpsElems, FALSE)
    \/ DEFVAR(OpsElems, FALSE)
    \/ MOVE(OpsElems, FALSE)
    \/ RETURN(OpsElems, FALSE)
    \/ PUSHS(OpsElems, FALSE)
    \/ POPS(OpsElems, FALSE)
    \/ ADD(OpsElems, FALSE)
    \/ SUB(OpsElems, FALSE)
    \/ MUL(OpsElems, FALSE)
    \/ IDIV(OpsElems, FALSE)
    \/ LT(OpsElems, FALSE)
    \/ GT(OpsElems, FALSE)
    \/ EQ(OpsElems, FALSE)
    \/ AND(OpsElems, FALSE)
    \/ OR(OpsElems, FALSE)
    \/ NOT(OpsElems, FALSE)
    \/ INT2CHAR(OpsElems, FALSE)
    \/ STRI2INT(OpsElems, FALSE)
    \/ READ(OpsElems, FALSE)
    \/ WRITE(OpsElems, FALSE)
    \/ CONCAT(OpsElems, FALSE)
    \/ STRLEN(OpsElems, FALSE)
    \/ GETCHAR(OpsElems, FALSE)
    \/ SETCHAR(OpsElems, FALSE)
    \/ TYPE(OpsElems, FALSE)
    \/ JUMPIFEQ(OpsElems, FALSE)
    \/ JUMPIFNEQ(OpsElems, FALSE)
    \/ EXIT(OpsElems, FALSE)
    \/ DPRINT(OpsElems, FALSE)
    \/ BREAK(OpsElems, FALSE)
    \/ EndOfProgram

SpecOps == InitOps /\ [][NextOps]_vars

(***************************************************************************)
(* SpecEq: programs that define and fill two global variables and compare  *)
(* literals and variables with EQ.  The values compared come as literals   *)
(* in several spellings, as copies of literals (MOVE) and as results the   *)
(* interpreter computed (ADD, EQ).                                         *)
(***************************************************************************)
EqVars == {GF_a, GF_b}
EqLiterals == {Int_1, Int_plus1, Int_2, Str_a, Str_escaped_a, Str_b,
               Bool_true, Bool_false, Nil}
EqSyms == EqVars \cup EqLiterals

EqElems ==
    Elems1({"DEFVAR"}, EqVars)
    \cup Elems2({"MOVE"}, EqVars, EqLiterals)
    \cup Elems3({"ADD"}, {GF_b}, {Int_1}, {Int_1})
    \cup Elems3({"EQ"}, {GF_a}, EqSyms, EqSyms)

InitEq == InitWith(EqLen, NoLabels)

NextEq ==
    \/ DEFVAR(EqElems, FALSE)
    \/ MOVE(EqElems, FALSE)
    \/ ADD(EqElems, FALSE)
    \/ EQ(EqElems, FALSE)
    \/ EndOfProgram

SpecEq == InitEq /\ [][NextEq]_vars

(***************************************************************************)
(* SpecFlow: programs of labels, jumps, calls and returns.  The label map  *)
(* get_all_labels built is any placement of the labels L and M, each at    *)
(* most once; the instructions fetched are kept, as a jump or a return     *)
(* fetches them again.  The call stack grows without limit in a program    *)
(* that recurses for ever: the model follows it to MaxCalls entries.       *)
(***************************************************************************)
FlowLabels == {Lbl_L.text, Lbl_M.text}

LabelMaps ==
    {m \in UNION {[D -> 0..(FlowLen - 1)] : D \in SUBSET FlowLabels} :
        \A l1, l2 \in DOMAIN m : m[l1] = m[l2] => l1 = l2}

FlowElems ==
    Elems0({"RETURN", "CREATEFRAME"})
    \cup Elems1({"LABEL", "CALL", "JUMP"}, {Lbl_L, Lbl_M})
    \cup Elems1({"DEFVAR"}, {GF_a})

InitFlow == \E labels \in LabelMaps : InitWith(FlowLen, labels)

NextFlow ==
    \/ LABEL(FlowElems, TRUE)
    \/ JUMP(FlowElems, TRUE)
    \/ Len(call_stack.stack) < MaxCalls /\ CALL(FlowElems, TRUE)
    \/ RETURN(FlowElems, TRUE)
    \/ CREATEFRAME(FlowElems, TRUE)
    \/ DEFVAR(FlowElems, TRUE)
    \/ EndOfProgram

SpecFlow == InitFlow /\ [][NextFlow]_vars

(***************************************************************************)
(* SpecDef: programs that create, push and pop frames and define and fill  *)
(* two variables in each of the three frames.                              *)
(***************************************************************************)
DefVars == {GF_a, GF_b, TF_a, TF_b, LF_a, LF_b}

DefElems ==
    Elems0({"CREATEFRAME", "PUSHFRAME", "POPFRAME"})
    \cup Elems1({"DEFVAR"}, DefVars)
    \cup Elems2({"MOVE"}, DefVars, {Int_1})

InitDef == InitWith(DefLen, NoLabels)

NextDef ==
    \/ CREATEFRAME(DefElems, FALSE)
    \/ PUSHFRAME(DefElems, FALSE)
    \/ POPFRAME(DefElems, FALSE)
    \/ DEFVAR(DefElems, FALSE)
    \/ MOVE(DefElems, FALSE)
    \/ EndOfProgram

SpecDef == InitDef /\ [][NextDef]_vars

(***************************************************************************)
(* SpecArity: programs whose instructions may carry an opcode the dispatch *)
(* table does not hold, or too few or too many arguments.                  *)
(***************************************************************************)
ArityElems ==
    Elems0({"CREATEFRAME", "DEFVAR", "PUSHS", "WRITE", "FOO", "move"})
    \cup Elems1({"CREATEFRAME", "DEFVAR", "MOVE", "FOO"}, {GF_a})
    \cup Elems1({"PUSHS", "WRITE"}, {Int_1})
    \cup Elems2({"MOVE", "DEFVAR", "PUSHS"}, {GF_a}, {Int_1})
    \cup Elems3({"MOVE"}, {GF_a}, {Int_1}, {Int_2})

InitArity == InitWith(ArityLen, NoLabels)

NextArity ==
    \/ CREATEFRAME(ArityElems, FALSE)
    \/ DEFVAR(ArityElems, FALSE)
    \/ MOVE(ArityElems, FALSE)
    \/ PUSHS(ArityElems, FALSE)
    \/ WRITE(ArityElems, FALSE)
    \/ UnknownOpcode(ArityElems, FALSE)
    \/ EndOfProgram

SpecArity == InitArity /\ [][NextArity]_vars

(***************************************************************************)
(* SpecExit: programs that fill a global variable with a literal or a sum  *)
(* and end with EXIT on a literal or on the variable.                      *)
(***************************************************************************)
ExitLiterals == {Int_0, Int_1, Int_49, Int_50, Int_minus1, Str_a, Bool_true, Nil}

ExitElems ==
    Elems1({"DEFVAR"}, {GF_a})
    \cup Elems2({"MOVE"}, {GF_a}, ExitLiterals)
    \cup Elems3({"ADD"}, {GF_a}, {Int_49, GF_a}, {Int_1, Int_minus1})
    \cup Elems1({"EXIT"}, ExitLiterals \cup {GF_a})

InitExit == InitWith(ExitLen, NoLabels)

NextExit ==
    \/ DEFVAR(ExitElems, FALSE)
    \/ MOVE(ExitElems, FALSE)
    \/ ADD(ExitElems, FALSE)
    \/ EXIT(ExitElems, FALSE)
    \/ EndOfProgram

SpecExit == InitExit /\ [][NextExit]_vars

(***************************************************************************)
(* SpecJump: whole documents of labels, jumps, calls and conditional jumps *)
(* on literals, their order keys contiguous, with gaps, or with gaps and   *)
(* descending in the document.                                             *)
(***************************************************************************)
Lbl_N == Arg(t_label, T(<<"N">>))

JumpElems ==
    Elems0({"CREATEFRAME"})
    \cup Elems1({"LABEL"}, {Lbl_L, Lbl_M})
    \cup Elems1({"JUMP"}, {Lbl_L, Lbl_N})
    \cup Elems1({"CALL"}, {Lbl_M})
    \cup Elems3({"JUMPIFEQ"}, {Lbl_L}, {Int_1}, {Int_1, Int_plus1})
    \cup Elems3({"JUMPIFNEQ"}, {Lbl_M}, {Int_1}, {Int_1, Int_2})

OrderKeys ==
    {[i \in 1..JumpLen |-> i],
     [i \in 1..JumpLen |-> 2 * i + 1],
     [i \in 1..JumpLen |-> 3 * (JumpLen + 1 - i)]}

JumpDocs ==
    {[i \in 1..JumpLen |-> [order |-> keys[i], elem |-> elems[i]]] :
        keys \in OrderKeys, elems \in [1..JumpLen -> JumpElems]}

InitJump == \E doc \in JumpDocs : InitDoc(doc)

NextJump ==
    \/ LABEL(JumpElems, TRUE)
    \/ JUMP(JumpElems, TRUE)
    \/ Len(call_stack.stack) < MaxCalls /\ CALL(JumpElems, TRUE)
    \/ JUMPIFEQ(JumpElems, TRUE)
    \/ JUMPIFNEQ(JumpElems, TRUE)
    \/ CREATEFRAME(JumpElems, TRUE)
    \/ EndOfProgram

SpecJump == InitJump /\ [][NextJump]_vars

(***************************************************************************)
(* SpecJeq: programs that define and fill a global variable and jump on    *)
(* the comparison of literals and variables, among them a variable that is *)
(* never defined and one of a frame that is never created.  The label L is *)
(* anywhere in the program, or nowhere.                                    *)
(***************************************************************************)
JeqSyms == {GF_a, GF_b, TF_a, Int_1, Int_plus1, Str_a, Nil}

JeqLabelMaps ==
    {NoLabels} \cup {[l \in {Lbl_L.text} |-> i] : i \in 0..(JeqLen - 1)}

JeqElems ==
    Elems1({"DEFVAR"}, {GF_a})
    \cup Elems1({"LABEL"}, {Lbl_L})
    \cup Elems2({"MOVE"}, {GF_a}, {Int_1, Str_a, Nil})
    \cup Elems3({"JUMPIFEQ"}, {Lbl_L}, JeqSyms, JeqSyms)
    \cup Elems3({"JUMPIFNEQ"}, {Lbl_L}, JeqSyms, {GF_a, GF_b, Int_1})

InitJeq == \E labels \in JeqLabelMaps : InitWith(JeqLen, labels)

NextJeq ==
    \/ LABEL(JeqElems, TRUE)
    \/ DEFVAR(JeqElems, TRUE)
    \/ MOVE(JeqElems, TRUE)
    \/ JUMPIFEQ(JeqElems, TRUE)
    \/ JUMPIFNEQ(JeqElems, TRUE)
    \/ EndOfProgram

SpecJeq == InitJeq /\ [][NextJeq]_vars

(***************************************************************************)
(* SpecLoad: construction and run.  A document of LoadLen instruction      *)
(* children, each with an order attribute that is a positive number, zero, *)
(* negative, signed, no number, or missing, is loaded by Interpret.__init__ *)
(* and, when it loads, run.                                                *)
(***************************************************************************)
LoadElems ==
    Elems1({"LABEL"}, {Lbl_L, Lbl_M}) \cup Elems1({"JUMP"}, {Lbl_L})
    \cup Elems0({"CREATEFRAME"})

LoadOrders ==
    {T(<<"1">>), T(<<"2">>), T(<<"3">>), T(<<"0">>), T(<<"-", "1">>),
     T(<<"+", "2">>), T(<<"a">>)}

LoadChildren ==
    {Child(TRUE, o, e) : o \in LoadOrders, e \in LoadElems}
    \cup {Child(FALSE, <<>>, e) : e \in LoadElems}

InitLoad == \E children \in [1..LoadLen -> LoadChildren] : InitRoot(children)

NextLoad ==
    \/ Interpret_init
    \/ init /\ LABEL(LoadElems, TRUE)
    \/ init /\ JUMP(LoadElems, TRUE)
    \/ init /\ CREATEFRAME(LoadElems, TRUE)
    \/ init /\ EndOfProgram

SpecLoad == InitLoad /\ [][NextLoad]_vars

(***************************************************************************)
(* SpecMath: programs that define and fill a global variable and compute   *)
(* on it with ADD, SUB, MUL and IDIV, the operands positive, zero,         *)
(* negative, signed, a string, a bool, nil, or the variable itself.        *)
(***************************************************************************)
MathSyms == {GF_a, Int_0, Int_2, Int_minus1, Int_plus1, Str_a, Bool_true, Nil}

MathElems ==
    Elems1({"DEFVAR"}, {GF_a})
    \cup Elems2({"MOVE"}, {GF_a}, {Int_2, Int_minus1, Str_a})
    \cup Elems3({"ADD", "SUB", "MUL", "IDIV"}, {GF_a}, MathSyms, MathSyms)

InitMath == InitWith(MathLen, NoLabels)

NextMath ==
    \/ DEFVAR(MathElems, FALSE)
    \/ MOVE(MathElems, FALSE)
    \/ ADD(MathElems, FALSE)
    \/ SUB(MathElems, FALSE)
    \/ MUL(MathElems, FALSE)
    \/ IDIV(MathElems, FALSE)
    \/ EndOfProgram

SpecMath == InitMath /\ [][NextMath]_vars

(***************************************************************************)
(* SpecStr: programs that define a global variable, fill it with a string  *)
(* of two characters or (TYPE of the variable itself, Uninitialized) with  *)
(* the empty string, and index strings with STRI2INT, GETCHAR and SETCHAR  *)
(* at positions inside them, past their end, and below zero.               *)
(***************************************************************************)
Str_ab == Arg(t_string, T(<<"a", "b">>))
Str_empty == Arg(t_string, <<>>)
Int_minus3 == Arg(t_int, T(<<"-", "3">>))

StrIndexes == {Int_0, Int_1, Int_2, Int_minus1, Int_minus3}

StrElems ==
    Elems1({"DEFVAR"}, {GF_a})
    \cup Elems2({"MOVE"}, {GF_a}, {Str_ab})
    \cup Elems2({"TYPE"}, {GF_a}, {GF_a})
    \cup Elems3({"STRI2INT", "GETCHAR"}, {GF_a}, {Str_ab, GF_a}, StrIndexes)
    \cup Elems3({"SETCHAR"}, {GF_a}, StrIndexes, {Str_b, Str_empty, GF_a})

InitStr == InitWith(StrLen, NoLabels)

NextStr ==
    \/ DEFVAR(StrElems, FALSE)
    \/ MOVE(StrElems, FALSE)
    \/ TYPE(StrElems, FALSE)
    \/ STRI2INT(StrElems, FALSE)
    \/ GETCHAR(StrElems, FALSE)
    \/ SETCHAR(StrElems, FALSE)
    \/ EndOfProgram

SpecStr == InitStr /\ [][NextStr]_vars

(***************************************************************************)
(* SpecPush: programs that define and fill a global variable and push      *)
(* literals, the variable, a type operand and label operands, one of them  *)
(* a label whose text reads as a variable reference.                       *)
(***************************************************************************)
Lbl_GF_a == Arg(t_label, GF_a.text)

PushElems ==
    Elems1({"DEFVAR"}, {GF_a})
    \cup Elems2({"MOVE"}, {GF_a}, {Int_1})
    \cup Elems1({"PUSHS"}, {GF_a, Int_1, Str_a, Bool_true, Nil, Type_int, Lbl_L, Lbl_GF_a})
    \cup Elems1({"POPS"}, {GF_a})

InitPush == InitWith(PushLen, NoLabels)

NextPush ==
    \/ DEFVAR(PushElems, FALSE)
    \/ MOVE(PushElems, FALSE)
    \/ PUSHS(PushElems, FALSE)
    \/ POPS(PushElems, FALSE)
    \/ EndOfProgram

SpecPush == InitPush /\ [][NextPush]_vars

(***************************************************************************)
(* SpecEsc: the one-instruction programs that WRITE a string literal: every *)
(* text of 1 to EscLen characters out of a backslash, the digits 0, 2 and  *)
(* 9, and a letter.  Instruction.stringify decodes the text.               *)
(***************************************************************************)
EscChars == {Backslash, Ord("0"), Ord("2"), Ord("9"), Ord("a")}

EscTexts == UNION {[1..n -> EscChars] : n \in 1..EscLen}

EscElems == Elems1({"WRITE"}, {Arg(t_string, text) : text \in EscTexts})

InitEsc == InitWith(1, NoLabels)

\* the texts are enumerated only where there is an instruction to fetch
NextEsc ==
    \/ outcome = Ok /\ index < Len(sorted_ins) /\ WRITE(EscElems, FALSE)
    \/ EndOfProgram

SpecEsc == InitEsc /\ [][NextEsc]_vars

(***************************************************************************)
(* SpecBreak: programs of BreakLen instructions that jump to, call and     *)
(* return from a label L, anywhere in the program or nowhere, and report   *)
(* with BREAK.  A program may loop for ever: the model follows its BREAKs  *)
(* while the count of executed instructions is below MaxPerformed.         *)
(***************************************************************************)
BreakLabelMaps ==
    {NoLabels} \cup {[l \in {Lbl_L.text} |-> i] : i \in 0..(BreakLen - 1)}

BreakElems ==
    Elems0({"BREAK", "RETURN", "CREATEFRAME"})
    \cup Elems1({"LABEL", "JUMP", "CALL"}, {Lbl_L})

InitBreak == \E labels \in BreakLabelMaps : InitWith(BreakLen, labels)

NextBreak ==
    \/ LABEL(BreakElems, TRUE)
    \/ JUMP(BreakElems, TRUE)
    \/ Len(call_stack.stack) < MaxCalls /\ CALL(BreakElems, TRUE)
    \/ RETURN(BreakElems, TRUE)
    \/ CREATEFRAME(BreakElems, TRUE)
    \/ performed < MaxPerformed /\ BREAK(BreakElems, TRUE)
    \/ EndOfProgram

SpecBreak == InitBreak /\ [][NextBreak]_vars

(***************************************************************************)
(* SpecStack: a client of the Stack class alone.  It calls append and pop  *)
(* on one Stack in any order, pop on the empty stack included; performed   *)
(* counts its calls.  The Stack is the call stack of a constructed         *)
(* interpreter with an empty program, which is never run.                  *)
(***************************************************************************)
StackItems == {PyInt(1), PyInt(2), PyInt(3)}

InitStack == InitWith(0, NoLabels)

Stack_append_call ==
    /\ Len(call_stack.stack) < StackLen
    /\ \E item \in StackItems : call_stack' = Stack_append(call_stack, item)
    /\ Counted
    /\ UNCHANGED <<sorted_ins, label_list, index, ins, data_stack,
                   local_frame_stack, global_frame, temporary_frame, heap,
                   stdout, stderr, outcome, root, init>>

Stack_pop_call ==
    /\ call_stack' = Stack_pop(call_stack, PyNone)
    /\ Counted
    /\ UNCHANGED <<sorted_ins, label_list, index, ins, data_stack,
                   local_frame_stack, global_frame, temporary_frame, heap,
                   stdout, stderr, outcome, root, init>>

NextStack == Stack_append_call \/ Stack_pop_call

SpecStack == InitStack /\ [][NextStack]_vars

(***************************************************************************)
(* What the claims speak of, read off a state s: the frame a variable      *)
(* reference names, whether it exists, and the binding in it.              *)
(***************************************************************************)
\* the frame prefix and the identifier of a variable argument "XX@name"
VFrame(a) == SubSeq(a.text, 1, 2)
VName(a) == SubSeq(a.text, 4, Len(a.text))
IsVar(a) == a.type = t_var
IsLiteral(a) == a.type \in {t_int, t_string, t_bool, t_nil}

LocalHeight(s) == Len(s.local_frame_stack.stack)

FrameExists(s, f) ==
    \/ f = GF
    \/ f = TF /\ s.temporary_frame.initialized
    \/ f = LF /\ LocalHeight(s) > 0

\* the bindings of an existing frame
FrameDict(s, f) ==
    IF f = GF THEN s.global_frame
    ELSE IF f = TF THEN s.heap[s.temporary_frame.data]
    ELSE s.heap[s.local_frame_stack.stack[LocalHeight(s)].n]

Defined(s, a) ==
    FrameExists(s, VFrame(a)) /\ VName(a) \in DOMAIN FrameDict(s, VFrame(a))

\* the stored value of a defined variable
Stored(s, a) == FrameDict(s, VFrame(a))[VName(a)]

Initialized(s, a) == Defined(s, a) /\ Stored(s, a).v1 # PyNone

\* a symbol that has a value: a literal, or an initialized variable
HasValue(s, a) == IsLiteral(a) \/ (IsVar(a) /\ Initialized(s, a))

\* the value of such a symbol
SymValue(s, a) ==
    IF IsVar(a) THEN Stored(s, a) ELSE Tuple(PyStr(a.text), PyStr(a.type))

\* every binding of every frame of s except the binding of variable a is
\* in s2 what it is in s, and the frames are the same objects
OnlyChanges(s, s2, a) ==
    /\ s2.temporary_frame = s.temporary_frame
    /\ s2.local_frame_stack = s.local_frame_stack
    /\ DOMAIN s2.heap = DOMAIN s.heap
    /\ DOMAIN s2.global_frame = DOMAIN s.global_frame
    /\ \A n \in DOMAIN s.global_frame :
           (VFrame(a) = GF /\ n = VName(a)) \/ s2.global_frame[n] = s.global_frame[n]
    /\ \A id \in DOMAIN s.heap :
           /\ DOMAIN s2.heap[id] = DOMAIN s.heap[id]
           /\ \A n \in DOMAIN s.heap[id] :
                  \/ /\ VFrame(a) = TF
                     /\ id = s.temporary_frame.data
                     /\ n = VName(a)
                  \/ /\ VFrame(a) = LF
                     /\ LocalHeight(s) > 0
                     /\ id = s.local_frame_stack.stack[LocalHeight(s)].n
                     /\ n = VName(a)
                  \/ s2.heap[id][n] = s.heap[id][n]

\* no binding of any frame differs between s and s2
NoBindingChanges(s, s2) ==
    /\ s2.temporary_frame = s.temporary_frame
    /\ s2.local_frame_stack = s.local_frame_stack
    /\ s2.heap = s.heap
    /\ s2.global_frame = s.global_frame

\* the step is one turn of the loop that fetched an element with this opcode
Ran(opcode) == outcome = Ok /\ ins'.opcode = opcode

(***************************************************************************)
(* C3.  From every reachable state, CREATEFRAME, PUSHFRAME, POPFRAME in    *)
(* sequence succeed and leave the Temporary frame present and empty and    *)
(* the local frame stack with the same frames, holding the same bindings,  *)
(* as before.                                                              *)
(***************************************************************************)
FrameRoundTrip == popframe(pushframe(createframe(St)))

C3_FrameRoundTrip ==
    outcome = Ok =>
        /\ FrameRoundTrip.outcome = Ok
        /\ FrameRoundTrip.temporary_frame.initialized
        /\ FrameRoundTrip.heap[FrameRoundTrip.temporary_frame.data] = EmptyDict
        /\ FrameRoundTrip.local_frame_stack = local_frame_stack
        /\ \A i \in 1..Len(local_frame_stack.stack) :
               FrameRoundTrip.heap[local_frame_stack.stack[i].n]
                   = heap[local_frame_stack.stack[i].n]
        /\ FrameRoundTrip.global_frame = global_frame

\* a state with a local frame on the stack and a Temporary frame that
\* holds a binding, from which the sequence leaves the Temporary frame empty
C3_Witness ==
    /\ outcome = Ok
    /\ Len(local_frame_stack.stack) > 0
    /\ temporary_frame.initialized
    /\ heap[temporary_frame.data] # EmptyDict
    /\ FrameRoundTrip.heap[FrameRoundTrip.temporary_frame.data] = EmptyDict
    /\ FrameRoundTrip.local_frame_stack = local_frame_stack

(***************************************************************************)
(* C4.  For every symbol x that has a value and every variable y that is   *)
(* defined and Uninitialized, PUSHS x then POPS y succeed, leave y holding *)
(* x's value (same type, same content) and leave the data stack as it was  *)
(* before the PUSHS.                                                       *)
(***************************************************************************)
PushsPops(x, y) ==
    pops(pushs(St, Decoded(Elem("PUSHS", <<x>>))), Decoded(Elem("POPS", <<y>>)))

C4_PushsPops ==
    \A x \in CoreSyms, y \in CoreVars :
        (outcome = Ok /\ HasValue(St, x) /\ Defined(St, y) /\ ~Initialized(St, y)) =>
            /\ PushsPops(x, y).outcome = Ok
            /\ Stored(PushsPops(x, y), y) = SymValue(St, x)
            /\ PushsPops(x, y).data_stack = data_stack

\* a state with a value on the data stack, an initialized variable x and an
\* Uninitialized variable y, from which the pair copies x's value into y
C4_Witness ==
    \E x \in CoreVars, y \in CoreVars :
        /\ outcome = Ok
        /\ Len(data_stack.stack) > 0
        /\ Initialized(St, x)
        /\ Defined(St, y) /\ ~Initialized(St, y)
        /\ Stored(PushsPops(x, y), y) = Stored(St, x)
        /\ PushsPops(x, y).data_stack = data_stack

(***************************************************************************)
(* C5.  POPS into a defined, initialized variable with a non-empty data    *)
(* stack faults with 53 exactly when the variable's current type differs   *)
(* from the type of the top value, and otherwise succeeds, storing the top *)
(* value and popping the stack; POPS with an empty data stack faults with  *)
(* 56.                                                                     *)
(***************************************************************************)
DataTop == data_stack.stack[Len(data_stack.stack)]

C5_PopsTypeRule ==
    [][ (Ran("POPS") /\ Len(ins'.args) = 1 /\ IsVar(ins'.args[1])
            /\ Defined(St, ins'.args[1])) =>
          IF Len(data_stack.stack) = 0
          THEN outcome' = Err(56)
          ELSE Initialized(St, ins'.args[1]) =>
                 /\ (outcome' = Err(53)) <=> (Stored(St, ins'.args[1]).v1 # DataTop.v1)
                 /\ (Stored(St, ins'.args[1]).v1 = DataTop.v1) =>
                        /\ outcome' = Ok
                        /\ Stored(St', ins'.args[1]) = DataTop
                        /\ data_stack'.stack
                               = SubSeq(data_stack.stack, 1, Len(data_stack.stack) - 1)
      ]_vars

(***************************************************************************)
(* C6.  MOVE dest src, with dest defined and src a literal or an           *)
(* initialized variable, succeeds when dest is Uninitialized or holds a    *)
(* value of src's type: it then leaves dest holding src's value and        *)
(* changes no other binding.  When dest holds a value of a different type  *)
(* it faults with 53 and changes no binding at all.                        *)
(***************************************************************************)
C6_Move ==
    [][ (Ran("MOVE") /\ Len(ins'.args) = 2 /\ IsVar(ins'.args[1])
            /\ Defined(St, ins'.args[1]) /\ HasValue(St, ins'.args[2])) =>
          IF \/ Stored(St, ins'.args[1]).v1 = PyNone
             \/ Stored(St, ins'.args[1]).v1 = SymValue(St, ins'.args[2]).v1
          THEN /\ outcome' = Ok
               /\ Stored(St', ins'.args[1]) = SymValue(St, ins'.args[2])
               /\ OnlyChanges(St, St', ins'.args[1])
          ELSE /\ outcome' = Err(53)
               /\ NoBindingChanges(St, St')
      ]_vars

\* a MOVE has just succeeded in copying the value of another variable into
\* its destination
C6_Witness ==
    /\ outcome = Ok
    /\ ins.opcode = "MOVE"
    /\ IsVar(ins.args[2])
    /\ ins.args[2] # ins.args[1]
    /\ Stored(St, ins.args[1]) = Stored(St, ins.args[2])
    /\ Initialized(St, ins.args[1])

(***************************************************************************)
(* C2.  A CALL of a known label, fetched at index i, pushes i + 1 on the   *)
(* call stack and moves the pointer to the label.  A RETURN on a call      *)
(* stack that is not empty pops the top entry and moves the pointer to it: *)
(* the entry is the index after the CALL that pushed it, so the next       *)
(* instruction fetched is the one that follows that CALL, and the call     *)
(* stack is as high as it was before that CALL.  No other instruction      *)
(* touches the call stack.                                                 *)
(***************************************************************************)
CallHeight == Len(call_stack.stack)

C2_CallReturn ==
    [][ /\ (Ran("CALL") /\ Len(ins'.args) = 1 /\ ins'.args[1].type = t_label
                /\ ins'.args[1].text \in DOMAIN label_list) =>
              /\ outcome' = Ok
              /\ call_stack'.stack = Append(call_stack.stack, PyInt(index + 1))
              /\ index' = label_list[ins'.args[1].text]
        /\ (Ran("RETURN") /\ Len(ins'.args) = 0 /\ CallHeight > 0) =>
              /\ outcome' = Ok
              /\ index' = call_stack.stack[CallHeight].n
              /\ index' \in 1..Len(sorted_ins)
              /\ sorted_ins[index'].opcode = "CALL"
              /\ call_stack'.stack = SubSeq(call_stack.stack, 1, CallHeight - 1)
        /\ (outcome = Ok /\ ins'.opcode \notin {"CALL", "RETURN"}) =>
              call_stack' = call_stack
      ]_vars

\* a RETURN has just come back to the instruction after a CALL that a call
\* nested in another made, leaving the outer call's entry on the call stack
C2_Witness ==
    /\ outcome = Ok
    /\ ins.opcode = "RETURN"
    /\ index \in 1..Len(sorted_ins)
    /\ sorted_ins[index].opcode = "CALL"
    /\ CallHeight = 1

(***************************************************************************)
(* C7.  EQ dest a b, with a and b literals or initialized variables and    *)
(* dest a defined variable that is Uninitialized or holds a Bool: when a   *)
(* and b have the same non-nil type, dest is left holding the Bool that    *)
(* tells whether they denote the same value; when both are nil it is left  *)
(* holding true; when exactly one is nil, false; and no other binding      *)
(* changes.  When a and b have two different non-nil types the instruction *)
(* faults with 53 and no binding changes, dest included.                   *)
(***************************************************************************)
RECURSIVE Unescaped(_)
\* the string a string literal denotes: each \ddd stands for code point ddd
Unescaped(s) ==
    IF s = <<>> THEN <<>>
    ELSE IF s[1] = Backslash /\ Len(s) >= 4 /\ IsDigit(SubSeq(s, 2, 4))
         THEN <<DigitsValue(SubSeq(s, 2, 4))>> \o Unescaped(SubSeq(s, 5, Len(s)))
    ELSE <<s[1]>> \o Unescaped(Tail(s))

\* the Value a stored (payload, type) pair denotes
Denotes(v) ==
    CASE v.v1 = PyStr(t_int) ->
             [type |-> t_int,
              val |-> IF v.v0.py = "int" THEN v.v0.n ELSE IntOfStr(v.v0.s)]
      [] v.v1 = PyStr(t_bool) ->
             [type |-> t_bool,
              val |-> IF v.v0.py = "bool" THEN v.v0.b
                      ELSE v.v0.s = T(<<"t", "r", "u", "e">>)]
      [] v.v1 = PyStr(t_string) -> [type |-> t_string, val |-> v.v0.s]
      [] OTHER -> [type |-> t_nil, val |-> t_nil]

\* the Value of a literal or an initialized variable
SymDenotes(s, a) ==
    IF IsVar(a) THEN Denotes(Stored(s, a))
    ELSE IF a.type = t_string
         THEN [type |-> t_string, val |-> Unescaped(a.text)]
    ELSE Denotes(Tuple(PyStr(a.text), PyStr(a.type)))

C7_Eq ==
    [][ (Ran("EQ") /\ Len(ins'.args) = 3 /\ IsVar(ins'.args[1])
            /\ Defined(St, ins'.args[1])
            /\ Stored(St, ins'.args[1]).v1 \in {PyNone, PyStr(t_bool)}
            /\ HasValue(St, ins'.args[2]) /\ HasValue(St, ins'.args[3])) =>
          LET a == SymDenotes(St, ins'.args[2])
              b == SymDenotes(St, ins'.args[3])
              expected == IF a.type = t_nil \/ b.type = t_nil
                          THEN a.type = t_nil /\ b.type = t_nil
                          ELSE a.val = b.val
          IN  IF a.type # b.type /\ a.type # t_nil /\ b.type # t_nil
              THEN /\ outcome' = Err(53)
                   /\ NoBindingChanges(St, St')
              ELSE /\ outcome' = Ok
                   /\ Stored(St', ins'.args[1])
                          = Tuple(PyBool(expected), PyStr(t_bool))
                   /\ OnlyChanges(St, St', ins'.args[1])
      ]_vars

\* an EQ has just found a variable that holds a computed number equal to a
\* literal, and stored true
C7_Witness ==
    /\ outcome = Ok
    /\ ins.opcode = "EQ"
    /\ ins.args[2].text = GF_b.text
    /\ ins.args[3].text = Int_2.text
    /\ Stored(St, GF_b) = Tuple(PyInt(2), PyStr(t_int))
    /\ Stored(St, GF_a) = Tuple(PyBool(TRUE), PyStr(t_bool))

(***************************************************************************)
(* C11.  DEFVAR of a variable whose frame exists: when the name is already *)
(* bound in that frame the instruction faults with 52 and no binding of    *)
(* any frame changes; otherwise it succeeds, the frame gains exactly the   *)
(* binding of the name to Uninitialized, and every other binding of that   *)
(* frame and of every other frame is as before.                            *)
(***************************************************************************)
\* the dict object that is frame f of s: -1 for the global dict, else its id
FrameId(s, f) ==
    IF f = GF THEN 0 - 1
    ELSE IF f = TF THEN s.temporary_frame.data
    ELSE s.local_frame_stack.stack[LocalHeight(s)].n

\* s2 is s with the binding of variable a added to its frame as `value`
OnlyAdds(s, s2, a, value) ==
    LET added(d) == [n \in DOMAIN d \cup {VName(a)} |->
                        IF n = VName(a) THEN value ELSE d[n]]
    IN  /\ s2.temporary_frame = s.temporary_frame
        /\ s2.local_frame_stack = s.local_frame_stack
        /\ s2.global_frame = IF VFrame(a) = GF THEN added(s.global_frame)
                             ELSE s.global_frame
        /\ DOMAIN s2.heap = DOMAIN s.heap
        /\ \A id \in DOMAIN s.heap :
               s2.heap[id] = IF id = FrameId(s, VFrame(a)) THEN added(s.heap[id])
                             ELSE s.heap[id]

C11_Defvar ==
    [][ (Ran("DEFVAR") /\ Len(ins'.args) = 1 /\ IsVar(ins'.args[1])
            /\ FrameExists(St, VFrame(ins'.args[1]))) =>
          IF Defined(St, ins'.args[1])
          THEN /\ outcome' = Err(52)
               /\ NoBindingChanges(St, St')
          ELSE /\ outcome' = Ok
               /\ OnlyAdds(St, St', ins'.args[1], Uninitialized)
      ]_vars

\* a DEFVAR has just added a second variable to a local frame whose first
\* variable holds a value
C11_Witness ==
    /\ outcome = Ok
    /\ ins.opcode = "DEFVAR"
    /\ ins.args[1].text = LF_b.text
    /\ Initialized(St, LF_a)
    /\ Stored(St, LF_b) = Uninitialized

(***************************************************************************)
(* C12.  An instruction whose opcode is neither LABEL nor an opcode of the *)
(* dispatch table, or whose opcode is in the table with a number of        *)
(* arguments other than the arity declared for it, halts the run with      *)
(* exit code 32, and no handler runs: the frames, the stacks and what was  *)
(* printed are as they were before the instruction was fetched.            *)
(***************************************************************************)
\* the element is one run_instruction turns away
Undispatchable(e) ==
    \/ e.opcode \notin DOMAIN dispatch_arity \cup {"LABEL", Unread.opcode, PastEnd.opcode}
    \/ e.opcode \in DOMAIN dispatch_arity /\ dispatch_arity[e.opcode] # Len(e.args)

\* nothing a handler can touch differs between the step's two states
NoHandlerRan ==
    /\ index' = index + 1
    /\ data_stack' = data_stack
    /\ call_stack' = call_stack
    /\ NoBindingChanges(St, St')
    /\ stdout' = stdout
    /\ stderr' = stderr

C12_Dispatch ==
    [][ (outcome = Ok /\ Undispatchable(ins') /\ Instruction(ins').res = Ok) =>
          (outcome' = Err(32) /\ NoHandlerRan)
      ]_vars

\* the statement with the exit code 52
C12_Dispatch52 ==
    [][ (outcome = Ok /\ Undispatchable(ins') /\ Instruction(ins').res = Ok) =>
          (outcome' = Err(52) /\ NoHandlerRan)
      ]_vars

\* a MOVE with three arguments has just been turned away, after two
\* instructions that left a variable and a printed text behind
C12_Witness ==
    /\ outcome = Err(32)
    /\ ins.opcode = "MOVE"
    /\ Len(ins.args) = 3
    /\ Defined(St, GF_a)
    /\ stdout # <<>>

(***************************************************************************)
(* C13.  EXIT on a literal or an initialized variable: an Int k with       *)
(* 0 <= k <= 49 ends the run with exit code k; any other Int ends it with  *)
(* 57; a value that is no Int ends it with 53.  Once the run has ended no  *)
(* instruction is fetched and nothing changes.                             *)
(***************************************************************************)
C13_Exit ==
    [][ /\ (Ran("EXIT") /\ Len(ins'.args) = 1 /\ HasValue(St, ins'.args[1])) =>
              LET v == SymDenotes(St, ins'.args[1])
              IN  outcome' = IF v.type # t_int THEN Err(53)
                             ELSE IF v.val \in 0..49 THEN Err(v.val)
                             ELSE Err(57)
        /\ outcome # Ok => vars' = vars
      ]_vars

\* an EXIT on a variable that holds the sum 49 has just ended the run with 49
C13_Witness ==
    /\ outcome = Err(49)
    /\ ins.opcode = "EXIT"
    /\ IsVar(ins.args[1])
    /\ Stored(St, GF_a) = Tuple(PyInt(49), PyStr(t_int))

(***************************************************************************)
(* C14.  A run ends in one of three ways only: with exit code 0 when the   *)
(* pointer has passed the last instruction, with the operand's code in     *)
(* 0..49 on EXIT, or with a code of the error taxonomy on the first fault; *)
(* never with an exception no handler catches.  Once it has ended no       *)
(* instruction executes.                                                   *)
(***************************************************************************)
ErrorTaxonomy == {31, 32, 52, 53, 54, 55, 56, 57, 58, 99}

C14_Halts ==
    [][ /\ (outcome = Ok /\ outcome' # Ok) =>
              \/ ins' = PastEnd /\ outcome' = Err(0)
              \/ ins'.opcode = "EXIT" /\ \E k \in 0..49 : outcome' = Err(k)
              \/ ins' # PastEnd /\ \E k \in ErrorTaxonomy : outcome' = Err(k)
        /\ outcome # Ok => vars' = vars
      ]_vars

(***************************************************************************)
(* C15.  In a run of a loaded document, whatever its order keys: after a   *)
(* JUMP, a CALL, a JUMPIFEQ on equal operands or a JUMPIFNEQ on unequal    *)
(* operands whose label names a LABEL instruction of the program, the      *)
(* pointer is at that LABEL instruction in the sorted sequence, so that it *)
(* is the next instruction fetched; a JUMP whose label names no LABEL      *)
(* instruction faults with 52.                                             *)
(***************************************************************************)
\* the positions in the sorted program of the LABEL instructions named l
LabelPositions(l) ==
    {i \in 1..Len(sorted_ins) :
        /\ sorted_ins[i].opcode = "LABEL"
        /\ sorted_ins[i].args[1].text = l}

\* the step is a transfer of control to the label of the fetched instruction
TakesJump ==
    \/ Ran("JUMP")
    \/ Ran("CALL")
    \/ /\ Ran("JUMPIFEQ")
       /\ SymDenotes(St, ins'.args[2]) = SymDenotes(St, ins'.args[3])
    \/ /\ Ran("JUMPIFNEQ")
       /\ SymDenotes(St, ins'.args[2]) # SymDenotes(St, ins'.args[3])

C15_JumpTarget ==
    [][ /\ (TakesJump /\ LabelPositions(ins'.args[1].text) # {}) =>
              /\ outcome' = Ok
              /\ index' + 1 \in LabelPositions(ins'.args[1].text)
        /\ (Ran("JUMP") /\ LabelPositions(ins'.args[1].text) = {}) =>
              outcome' = Err(52)
      ]_vars

\* a LABEL that is the last instruction of the program has just been
\* fetched after a jump from the first instruction
C15_Witness ==
    /\ outcome = Ok
    /\ ins.opcode = "LABEL"
    /\ index = Len(sorted_ins)
    /\ sorted_ins[1].opcode \in {"JUMP", "JUMPIFEQ", "JUMPIFNEQ", "CALL"}
    /\ sorted_ins[1].args[1].text = ins.args[1].text
    /\ \A i \in 2..(Len(sorted_ins) - 1) : sorted_ins[i].opcode = "JUMP"

(***************************************************************************)
(* C16.  JUMPIFEQ L a b, with L a label of the program, does what EQ on a  *)
(* and b would do with a destination that accepts its result: when EQ      *)
(* would store true the pointer moves to L, when EQ would store false the  *)
(* next instruction follows, and when EQ would fault the jump faults in    *)
(* the same way.  JUMPIFNEQ moves to L when EQ would store false and goes  *)
(* on when it would store true.                                            *)
(***************************************************************************)
\* a global variable no program names, for EQ to store into
EqDest == Var(GF, T(<<"d", "e", "s", "t">>))

\* the state EQ EqDest a b leaves when run in place of the jump on a b
EqInstead(s, e) ==
    relation_ops([s EXCEPT !.global_frame =
                               DictSet(s.global_frame, VName(EqDest), Uninitialized)],
                 Decoded(Elem("EQ", <<EqDest, Arg(e.args[2].type, e.args[2].text),
                                      Arg(e.args[3].type, e.args[3].text)>>)),
                 "==")

\* the jump of the step did what an EQ storing `taken` for it to jump did
JumpsAsEq(taken_on) ==
    LET eq_state == EqInstead(Fetched(ins', TRUE), ins')
    IN  IF eq_state.outcome # Ok THEN outcome' = eq_state.outcome
        ELSE /\ outcome' = Ok
             /\ index' = IF eq_state.global_frame[VName(EqDest)].v0.b = taken_on
                         THEN label_list[ins'.args[1].text]
                         ELSE index + 1

C16_JumpAsEq ==
    [][ /\ (Ran("JUMPIFEQ") /\ ins'.args[1].text \in DOMAIN label_list) =>
              JumpsAsEq(TRUE)
        /\ (Ran("JUMPIFNEQ") /\ ins'.args[1].text \in DOMAIN label_list) =>
              JumpsAsEq(FALSE)
      ]_vars

(***************************************************************************)
(* C17.  A step in which an instruction faults leaves the global frame,    *)
(* the temporary frame, the local frame stack, the data stack and the call *)
(* stack as they were before the instruction was fetched.                  *)
(***************************************************************************)
C17_FaultKeepsState ==
    [][ (outcome = Ok /\ outcome' # Ok /\ ins' # PastEnd /\ ins'.opcode # "EXIT") =>
          /\ NoBindingChanges(St, St')
          /\ data_stack' = data_stack
          /\ call_stack' = call_stack
      ]_vars

(***************************************************************************)
(* C18.  A READ that succeeds on a defined variable leaves that variable   *)
(* holding a value (the parsed input, or nil): the variable is not         *)
(* Uninitialized after the instruction.                                    *)
(***************************************************************************)
C18_ReadAssigns ==
    [][ (Ran("READ") /\ outcome' = Ok /\ Len(ins'.args) = 2
           /\ IsVar(ins'.args[1]) /\ Defined(St, ins'.args[1])) =>
          Initialized(St', ins'.args[1])
      ]_vars

(***************************************************************************)
(* C19.  WRITE of a variable that holds a Bool, however the program put    *)
(* it there (MOVE of a bool literal, or the result of LT, GT, EQ, AND, OR  *)
(* or NOT), succeeds and emits true or false in lower case; WRITE of a nil *)
(* emits the empty string.                                                 *)
(***************************************************************************)
C19_WriteBool ==
    [][ (Ran("WRITE") /\ Len(ins'.args) = 1 /\ HasValue(St, ins'.args[1])) =>
          LET v == SymDenotes(St, ins'.args[1])
          IN  /\ (IsVar(ins'.args[1]) /\ v.type = t_bool) =>
                     /\ outcome' = Ok
                     /\ stdout' = Append(stdout,
                                         Printed(IF v.val THEN T(<<"t", "r", "u", "e">>)
                                                 ELSE T(<<"f", "a", "l", "s", "e">>)))
              /\ v.type = t_nil =>
                     /\ outcome' = Ok
                     /\ stdout' = Append(stdout, Printed(<<>>))
      ]_vars

(***************************************************************************)
(* C20.  NOT dest, sym where sym has a value: when the value is a Bool b   *)
(* (a bool literal, or a variable holding a Bool) the instruction succeeds *)
(* and dest holds the Bool not-b; when the value is not a Bool the         *)
(* instruction faults with 53.                                             *)
(***************************************************************************)
C20_Not ==
    [][ (Ran("NOT") /\ Len(ins'.args) = 2 /\ IsVar(ins'.args[1])
           /\ Defined(St, ins'.args[1]) /\ HasValue(St, ins'.args[2])) =>
          LET b == SymDenotes(St, ins'.args[2])
          IN  IF b.type # t_bool THEN outcome' = Err(53)
              ELSE (~Initialized(St, ins'.args[1])
                      \/ Denotes(Stored(St, ins'.args[1])).type = t_bool) =>
                       /\ outcome' = Ok
                       /\ Initialized(St', ins'.args[1])
                       /\ Denotes(Stored(St', ins'.args[1])) = [type |-> t_bool, val |-> ~b.val]
      ]_vars

(***************************************************************************)
(* C21.  Construction of a document.  When the loader accepts it, every    *)
(* order attribute is a positive integer, no two are the same number, and  *)
(* the sequence the engine gets is the document's elements by strictly     *)
(* ascending order key.  When an order attribute is repeated, zero,        *)
(* negative or no integer, construction ends with 32 and no instruction    *)
(* has been fetched or has written anything.                               *)
(***************************************************************************)
\* the step is Interpret.__init__
Constructs == ~init /\ init'

OrderIsInt(c) == c.keyed /\ IntParses(c.order)

\* some order attribute is no integer, zero, negative, or repeated
BadOrder(children) ==
    \/ \E k \in 1..Len(children) :
           /\ children[k].keyed
           /\ (~IntParses(children[k].order) \/ IntOfStr(children[k].order) <= 0)
    \/ \E j, k \in 1..Len(children) :
           /\ j # k /\ OrderIsInt(children[j]) /\ OrderIsInt(children[k])
           /\ IntOfStr(children[j].order) = IntOfStr(children[k].order)

Arrangements(n) == {p \in [1..n -> 1..n] : \A i, j \in 1..n : p[i] = p[j] => i = j}

\* program is the elements of children, arranged by strictly ascending key
AscendingByKey(children, program) ==
    /\ Len(program) = Len(children)
    /\ \E p \in Arrangements(Len(children)) :
           /\ \A i \in 1..Len(children) : program[i] = children[p[i]].elem
           /\ \A i \in 1..(Len(children) - 1) :
                  IntOfStr(children[p[i]].order) < IntOfStr(children[p[i + 1]].order)

C21_Load ==
    [][ Constructs =>
          /\ outcome' # Err(32) =>
                 /\ \A k \in 1..Len(root) :
                        OrderIsInt(root[k]) /\ IntOfStr(root[k].order) > 0
                 /\ AscendingByKey(root, sorted_ins')
          /\ BadOrder(root) =>
                 /\ outcome' = Err(32)
                 /\ index' = 0 /\ ins' = Unread
                 /\ stdout' = <<>> /\ stderr' = <<>>
      ]_vars

\* a document of LoadLen instructions has been accepted and its run is at
\* its second instruction
C21_Witness ==
    /\ init /\ outcome = Ok
    /\ Len(sorted_ins) = LoadLen
    /\ index = 1
    /\ ins = sorted_ins[1]

(***************************************************************************)
(* C22.  Construction of a document the loader accepts.  When two of its   *)
(* LABEL instructions have the same name, wherever they are, construction  *)
(* ends with 52 and no instruction has been fetched or has written         *)
(* anything.  Otherwise the label map has exactly the names of the LABEL   *)
(* instructions, each with the 0-based index of its LABEL instruction in   *)
(* the sorted program.                                                     *)
(***************************************************************************)
LabelsOf(children) ==
    {k \in 1..Len(children) : children[k].elem.opcode = "LABEL"}

DuplicateLabel(children) ==
    \E j, k \in LabelsOf(children) :
        j # k /\ children[j].elem.args[1].text = children[k].elem.args[1].text

C22_Labels ==
    [][ (Constructs /\ outcome' # Err(32)) =>
          IF DuplicateLabel(root)
          THEN /\ outcome' = Err(52)
               /\ index' = 0 /\ ins' = Unread
               /\ stdout' = <<>> /\ stderr' = <<>>
          ELSE /\ outcome' = Ok
               /\ DOMAIN label_list' = {root[k].elem.args[1].text : k \in LabelsOf(root)}
               /\ \A l \in DOMAIN label_list' :
                      /\ label_list'[l] \in 0..(Len(sorted_ins') - 1)
                      /\ sorted_ins'[label_list'[l] + 1].opcode = "LABEL"
                      /\ sorted_ins'[label_list'[l] + 1].args[1].text = l
      ]_vars

\* a program with the labels L and M, M first, has been constructed
C22_Witness ==
    /\ init /\ outcome = Ok /\ index = 0
    /\ DOMAIN label_list = {Lbl_L.text, Lbl_M.text}
    /\ label_list[Lbl_M.text] = 0
    /\ label_list[Lbl_L.text] = 2

(***************************************************************************)
(* C23.  ADD, SUB, MUL and IDIV on a defined destination and two operands  *)
(* that have a value.  When an operand is no Int, or the destination holds *)
(* a value that is no Int, the instruction faults with 53.  Otherwise IDIV *)
(* by zero faults with 57 and changes no binding, and every other case     *)
(* succeeds, changes the destination only, and leaves it holding the Int   *)
(* sum, difference, product or quotient (rounded towards minus infinity).  *)
(***************************************************************************)
Arithmetic == {"ADD", "SUB", "MUL", "IDIV"}

ArithmeticResult(opcode, a, b) ==
    CASE opcode = "ADD" -> a + b
      [] opcode = "SUB" -> a - b
      [] opcode = "MUL" -> a * b
      [] opcode = "IDIV" -> IF b > 0 THEN a \div b ELSE (0 - a) \div (0 - b)

C23_Math ==
    [][ (outcome = Ok /\ ins'.opcode \in Arithmetic /\ Len(ins'.args) = 3
           /\ IsVar(ins'.args[1]) /\ Defined(St, ins'.args[1])
           /\ HasValue(St, ins'.args[2]) /\ HasValue(St, ins'.args[3])) =>
          LET dest == ins'.args[1]
              a == SymDenotes(St, ins'.args[2])
              b == SymDenotes(St, ins'.args[3])
          IN  IF \/ a.type # t_int \/ b.type # t_int
                 \/ (Initialized(St, dest) /\ Denotes(Stored(St, dest)).type # t_int)
              THEN outcome' = Err(53)
              ELSE IF ins'.opcode = "IDIV" /\ b.val = 0
              THEN outcome' = Err(57) /\ NoBindingChanges(St, St')
              ELSE /\ outcome' = Ok
                   /\ OnlyChanges(St, St', dest)
                   /\ Initialized(St', dest)
                   /\ Denotes(Stored(St', dest)) =
                          [type |-> t_int,
                           val |-> ArithmeticResult(ins'.opcode, a.val, b.val)]
      ]_vars

\* an IDIV of a negative number by a positive one has stored its quotient
\* over an Int the destination held
C23_Witness ==
    /\ outcome = Ok
    /\ ins.opcode = "IDIV"
    /\ ins.args[2].text = Int_minus1.text
    /\ ins.args[3].text = Int_2.text
    /\ index = 3
    /\ Initialized(St, GF_a)
    /\ Denotes(Stored(St, GF_a)) = [type |-> t_int, val |-> -1]

(***************************************************************************)
(* C24.  STRI2INT and GETCHAR on a string s and an Int index i, and        *)
(* SETCHAR on a destination holding a string s, an Int index i and a       *)
(* string replacement: when i is below 0 or at or above the length of s,   *)
(* or the replacement of SETCHAR is empty, the instruction faults with 58  *)
(* and changes no binding.                                                 *)
(***************************************************************************)
\* the symbol has a value of type t
HasType(s, a, t) == HasValue(s, a) /\ SymDenotes(s, a).type = t

OutOfRange(i, str) == i < 0 \/ i >= Len(str)

C24_Index ==
    [][ /\ (outcome = Ok /\ ins'.opcode \in {"STRI2INT", "GETCHAR"} /\ Len(ins'.args) = 3
              /\ IsVar(ins'.args[1]) /\ Defined(St, ins'.args[1])
              /\ (~Initialized(St, ins'.args[1])
                    \/ HasType(St, ins'.args[1],
                               IF ins'.opcode = "STRI2INT" THEN t_int ELSE t_string))
              /\ HasType(St, ins'.args[2], t_string)
              /\ HasType(St, ins'.args[3], t_int)
              /\ OutOfRange(SymDenotes(St, ins'.args[3]).val,
                            SymDenotes(St, ins'.args[2]).val)) =>
             (outcome' = Err(58) /\ NoBindingChanges(St, St'))
        /\ (outcome = Ok /\ ins'.opcode = "SETCHAR" /\ Len(ins'.args) = 3
              /\ IsVar(ins'.args[1]) /\ HasType(St, ins'.args[1], t_string)
              /\ HasType(St, ins'.args[2], t_int)
              /\ HasType(St, ins'.args[3], t_string)
              /\ (\/ OutOfRange(SymDenotes(St, ins'.args[2]).val,
                                SymDenotes(St, ins'.args[1]).val)
                  \/ SymDenotes(St, ins'.args[3]).val = <<>>)) =>
             (outcome' = Err(58) /\ NoBindingChanges(St, St'))
      ]_vars

(***************************************************************************)
(* C25.  PUSHS with an operand of argument type `type` or `label` faults   *)
(* with 53 and leaves the data stack as it was; PUSHS with a literal or an *)
(* initialized variable succeeds and leaves the data stack one value       *)
(* longer, the values below it unchanged.                                  *)
(***************************************************************************)
C25_Pushs ==
    [][ (Ran("PUSHS") /\ Len(ins'.args) = 1) =>
          /\ ins'.args[1].type \in {t_type, t_label} =>
                 (outcome' = Err(53) /\ data_stack' = data_stack)
          /\ HasValue(St, ins'.args[1]) =>
                 /\ outcome' = Ok
                 /\ Len(data_stack'.stack) = Len(data_stack.stack) + 1
                 /\ SubSeq(data_stack'.stack, 1, Len(data_stack.stack)) = data_stack.stack
      ]_vars

(***************************************************************************)
(* C26.  Decoding the text of a string literal, seen through WRITE of the  *)
(* literal: the instruction succeeds and writes the text with each         *)
(* backslash that three decimal digits follow replaced, in one pass from   *)
(* the left, by the code point of that number; what a replacement wrote is *)
(* not decoded again, and a text without a backslash is written as it is.  *)
(***************************************************************************)
C26_Stringify ==
    [][ (Ran("WRITE") /\ Len(ins'.args) = 1 /\ ins'.args[1].type = t_string
           /\ ins'.args[1].text # <<>>) =>
          /\ outcome' = Ok
          /\ stdout' = Append(stdout, Printed(Unescaped(ins'.args[1].text)))
      ]_vars

(***************************************************************************)
(* C27.  The number a BREAK reports as performed instructions is the       *)
(* number of instructions the run has executed: the turns of the loop made *)
(* before the BREAK, or those and the BREAK itself.                        *)
(***************************************************************************)
C27_BreakCount ==
    [][ (Ran("BREAK") /\ outcome' = Ok /\ performed < MaxPerformed) =>
          /\ Len(stderr') = Len(stderr) + 1
          /\ stderr'[Len(stderr')].n \in {performed, performed + 1}
      ]_vars

(***************************************************************************)
(* C28.  Frames that are accessible together share no storage.  A DEFVAR   *)
(* or an assignment that succeeds on a TF@ variable changes no binding of  *)
(* the Global frame nor of any frame on the local frame stack; one that    *)
(* succeeds on an LF@ variable, while the Temporary frame is present,      *)
(* changes no binding of the Temporary frame nor of the Global frame.      *)
(***************************************************************************)
\* the bindings of the frames on the local frame stack, bottom first
LocalFrames(s) ==
    [i \in 1..LocalHeight(s) |-> s.heap[s.local_frame_stack.stack[i].n]]

\* the step is an instruction that succeeds and whose first operand is a
\* variable of frame f: the variable DEFVAR defines or a handler assigns
WritesTo(f) ==
    /\ outcome = Ok /\ outcome' = Ok
    /\ ins'.opcode \notin {"PUSHS", "WRITE", "EXIT", "DPRINT", "-1"}
    /\ Len(ins'.args) >= 1
    /\ IsVar(ins'.args[1]) /\ VFrame(ins'.args[1]) = f

PointerInRange(s) ==
    /\ s.index \in 0..(Len(s.sorted_ins) + 1)
    /\ \A i \in 1..Len(s.call_stack.stack) :
          /\ s.call_stack.stack[i].py = "int"
          /\ s.call_stack.stack[i].n \in 1..Len(s.sorted_ins)

Transfers ==
    /\ outcome = Ok /\ outcome' = Ok
    /\ ins'.opcode \in {"JUMP", "JUMPIFEQ", "JUMPIFNEQ", "CALL", "RETURN"}

C29_Pointer ==
    [][ /\ PointerInRange(St)
        /\ PointerInRange(St')
        /\ Transfers => index' \in 0..Len(sorted_ins')
      ]_vars

\* a RETURN has sent the pointer to the end-of-program position n, the
\* entry that a CALL in the last instruction pushed
C29_Witness ==
    /\ outcome = Ok
    /\ ins.opcode = "RETURN"
    /\ Len(sorted_ins) > 0
    /\ index = Len(sorted_ins)

(***************************************************************************)
(* C30.  After any sequence of append and pop on a Stack, pop on the empty *)
(* stack included, get_top returns the element appended last among those   *)
(* not yet popped, the last one of the list, and it returns None exactly   *)
(* when the stack holds no element.                                        *)
(***************************************************************************)
C30_Top ==
    /\ (Stack_get_top(call_stack) = PyNone) <=> (Len(call_stack.stack) = 0)
    /\ Len(call_stack.stack) > 0 =>
          Stack_get_top(call_stack) = call_stack.stack[Len(call_stack.stack)]
    /\ [][ /\ (performed' # performed
               /\ Len(call_stack'.stack) > Len(call_stack.stack)) =>
                 /\ SubSeq(call_stack'.stack, 1, Len(call_stack.stack))
                       = call_stack.stack
                 /\ Stack_get_top(call_stack')
                       = call_stack'.stack[Len(call_stack'.stack)]
           /\ (performed' # performed
               /\ Len(call_stack'.stack) <= Len(call_stack.stack)) =>
                 /\ call_stack'.stack
                       = SubSeq(call_stack.stack, 1, Len(call_stack'.stack))
                 /\ Len(call_stack'.stack) > 0 =>
                       Stack_get_top(call_stack')
                          = call_stack.stack[Len(call_stack'.stack)]
                 /\ Len(call_stack'.stack) = 0 =>
                       Stack_get_top(call_stack') = PyNone
         ]_vars

\* three calls have left one element: one of them was a pop, and the
\* element below the popped one, or a later one, is the top
C30_Witness ==
    /\ performed = 3
    /\ Len(call_stack.stack) = 1
    /\ Stack_get_top(call_stack) = PyInt(2)

(***************************************************************************)
(* C1.  A binding that holds a value of a concrete type keeps that type,   *)
(* and stays bound, across every step of MOVE, POPS, ADD, SUB, MUL, IDIV,  *)
(* LT, GT, EQ, AND, OR, NOT, INT2CHAR, STRI2INT, CONCAT, STRLEN, GETCHAR,  *)
(* SETCHAR, TYPE or READ, as long as the frame object that holds it        *)
(* exists.                                                                 *)
(***************************************************************************)
AssigningOpcodes ==
    {"MOVE", "POPS", "ADD", "SUB", "MUL", "IDIV", "LT", "GT", "EQ", "AND", "OR",
     "NOT", "INT2CHAR", "STRI2INT", "CONCAT", "STRLEN", "GETCHAR", "SETCHAR",
     "TYPE", "READ"}

\* binding n of dictionary d keeps its concrete type in dictionary d2
KeepsType(d, d2, n) ==
    d[n].v1 # PyNone => (n \in DOMAIN d2 /\ d2[n].v1 = d[n].v1)

C1_TypeStable ==
    [][ (outcome = Ok /\ ins'.opcode \in AssigningOpcodes) =>
          /\ \A n \in DOMAIN global_frame : KeepsType(global_frame, global_frame', n)
          /\ \A id \in (DOMAIN heap) \cap (DOMAIN heap') :
                 \A n \in DOMAIN heap[id] : KeepsType(heap[id], heap'[id], n)
      ]_vars

(***************************************************************************)
(* C8.  An instruction of MOVE, PUSHS, ADD, SUB, MUL, IDIV, LT, GT, EQ,    *)
(* AND, OR, NOT, INT2CHAR, STRI2INT, CONCAT, STRLEN, GETCHAR, SETCHAR,     *)
(* JUMPIFEQ, JUMPIFNEQ, EXIT, WRITE or DPRINT whose variable operands are  *)
(* all defined and one of whose source operands is an Uninitialized        *)
(* variable faults with 56.                                                *)
(***************************************************************************)
\* the operand positions an opcode reads as sources
SourcePositions(opcode) ==
    CASE opcode \in {"PUSHS", "EXIT", "WRITE", "DPRINT"} -> {1}
      [] opcode \in {"MOVE", "NOT", "INT2CHAR", "STRLEN"} -> {2}
      [] opcode \in {"ADD", "SUB", "MUL", "IDIV", "LT", "GT", "EQ", "AND", "OR",
                     "STRI2INT", "CONCAT", "GETCHAR", "SETCHAR",
                     "JUMPIFEQ", "JUMPIFNEQ"} -> {2, 3}
      [] OTHER -> {}

\* every variable operand of element e is defined in state s
AllDefined(s, e) ==
    \A i \in 1..Len(e.args) : IsVar(e.args[i]) => Defined(s, e.args[i])

\* some source operand of element e is a defined, Uninitialized variable
UninitializedSource(s, e) ==
    \E i \in SourcePositions(e.opcode) \cap (1..Len(e.args)) :
        /\ IsVar(e.args[i])
        /\ Defined(s, e.args[i])
        /\ ~Initialized(s, e.args[i])

C8_UninitializedSource ==
    [][ (outcome = Ok /\ AllDefined(St, ins') /\ UninitializedSource(St, ins')) =>
          outcome' = Err(56)
      ]_vars

(***************************************************************************)
(* C9.  An instruction other than DEFVAR whose variable operands all name  *)
(* frames that exist, and one of whose variable operands has no binding in *)
(* its frame, faults with 54; JUMPIFEQ and JUMPIFNEQ included.             *)
(***************************************************************************)
AllFramesExist(s, e) ==
    \A i \in 1..Len(e.args) : IsVar(e.args[i]) => FrameExists(s, VFrame(e.args[i]))

UndefinedOperand(s, e) ==
    \E i \in 1..Len(e.args) :
        /\ IsVar(e.args[i])
        /\ FrameExists(s, VFrame(e.args[i]))
        /\ ~Defined(s, e.args[i])

C9_UndefinedVariable ==
    [][ (outcome = Ok /\ ins'.opcode # "DEFVAR" /\ ins' # PastEnd
            /\ AllFramesExist(St, ins') /\ UndefinedOperand(St, ins')) =>
          outcome' = Err(54)
      ]_vars

(***************************************************************************)
(* C10.  While the Temporary frame is absent, PUSHFRAME and every          *)
(* instruction with a TF@ operand fault with 55 and leave every frame as   *)
(* it was; while the local frame stack is empty, POPFRAME and every        *)
(* instruction with an LF@ operand fault with 55.  The instruction's       *)
(* operands in frames that do exist are defined variables.                 *)
(***************************************************************************)
HasOperandIn(e, f) ==
    \E i \in 1..Len(e.args) : IsVar(e.args[i]) /\ VFrame(e.args[i]) = f

\* every variable operand of element e whose frame exists is defined
DefinedWhereFramed(s, e) ==
    \A i \in 1..Len(e.args) :
        (IsVar(e.args[i]) /\ FrameExists(s, VFrame(e.args[i]))) => Defined(s, e.args[i])

C10_FrameMissing ==
    [][ (outcome = Ok /\ ins' # PastEnd /\ DefinedWhereFramed(St, ins')) =>
          /\ (~FrameExists(St, TF) /\ (ins'.opcode = "PUSHFRAME" \/ HasOperandIn(ins', TF)))
                 => (outcome' = Err(55) /\ NoBindingChanges(St, St'))
          /\ (~FrameExists(St, LF) /\ (ins'.opcode = "POPFRAME" \/ HasOperandIn(ins', LF)))
                 => outcome' = Err(55)
      ]_vars

====
